---------------------------- MODULE Spec2Model ----------------------------
(***************************************************************************)
(* simple-cache-id: in-memory key/value cache with TTL expiry and an       *)
(* optional binary snapshot (.sdb) written by a debounced, atomic writer.  *)
(*                                                                         *)
(* Strings are sequences of code points, buffers are sequences of bytes    *)
(* (0..255), times are milliseconds (Date.now()).  Structured values are   *)
(* tagged records: [t |-> "num", n], [t |-> "str", s], [t |-> "null"],     *)
(* [t |-> "bool", b], [t |-> "arr", items], [t |-> "obj", members] and     *)
(* [t |-> "undefined"] (a value JSON.stringify has no text for).           *)
(***************************************************************************)
EXTENDS Integers, Sequences, FiniteSets, TLC

VARIABLES
    now,            \* Date.now(), in milliseconds
    proc,           \* "running" | "crashed": the Node process
    activeFiles,    \* SimpleCache._activeFiles: persistPath -> owning instance
    instances,      \* SimpleCache._instances: the shutdown set
    handlersSetup,  \* SimpleCache._handlersSetup
    hooks,          \* the listeners the cache has put on the process's events
    disk,           \* the file system: file -> [exists, bytes]
    inst,           \* the SimpleCache objects, by instance id
    snap,           \* history: per file, the entries of the last completed write
    lastOp,         \* history: the operation performed by the last step
    codec           \* the codec harness: input entries, buffer, decoded output

vars == <<now, proc, activeFiles, instances, handlersSetup, hooks, disk, inst, snap,
          lastOp, codec>>

-----------------------------------------------------------------------------
(* Generic helpers *)

Min(a, b) == IF a < b THEN a ELSE b

RECURSIVE Flatten(_)
Flatten(ss) == IF ss = <<>> THEN <<>> ELSE Head(ss) \o Flatten(Tail(ss))

\* Buffer.slice / toString(start, end): 0-based, end exclusive, both clamped.
Slice(buf, start, end) ==
    IF start >= Len(buf) \/ end <= start THEN <<>>
    ELSE SubSeq(buf, start + 1, Min(end, Len(buf)))

-----------------------------------------------------------------------------
(* UTF-8: Buffer.from(str, 'utf8') and buffer.toString('utf8') *)

Utf8Char(cp) ==
    IF cp < 128 THEN <<cp>>
    ELSE IF cp < 2048 THEN <<192 + (cp \div 64), 128 + (cp % 64)>>
    ELSE <<224 + (cp \div 4096), 128 + ((cp \div 64) % 64), 128 + (cp % 64)>>

Utf8Encode(str) == Flatten([i \in 1..Len(str) |-> Utf8Char(str[i])])

IsCont(b) == b >= 128 /\ b < 192

\* An ill-formed byte decodes to U+FFFD (65533) and the decoder moves on.
RECURSIVE Utf8Decode(_)
Utf8Decode(bytes) ==
    IF bytes = <<>> THEN <<>>
    ELSE LET b == bytes[1] IN
         IF b < 128 THEN <<b>> \o Utf8Decode(Tail(bytes))
         ELSE IF b >= 194 /\ b < 224 /\ Len(bytes) >= 2 /\ IsCont(bytes[2])
              THEN <<(b - 192) * 64 + (bytes[2] - 128)>>
                   \o Utf8Decode(SubSeq(bytes, 3, Len(bytes)))
         ELSE IF b >= 224 /\ b < 240 /\ Len(bytes) >= 3 /\ IsCont(bytes[2])
                 /\ IsCont(bytes[3])
                 /\ (b - 224) * 4096 + (bytes[2] - 128) * 64 >= 2048
              THEN <<(b - 224) * 4096 + (bytes[2] - 128) * 64 + (bytes[3] - 128)>>
                   \o Utf8Decode(SubSeq(bytes, 4, Len(bytes)))
         ELSE <<65533>> \o Utf8Decode(Tail(bytes))

-----------------------------------------------------------------------------
(* JSON.stringify *)

RECURSIVE Digits(_)
Digits(n) == IF n < 10 THEN <<48 + n>> ELSE Digits(n \div 10) \o <<48 + (n % 10)>>

\* '"' and '\' are escaped with a backslash, a newline becomes \n.
EscapeChar(c) ==
    IF c = 34 THEN <<92, 34>>
    ELSE IF c = 92 THEN <<92, 92>>
    ELSE IF c = 10 THEN <<92, 110>>
    ELSE <<c>>

Quote(s) == <<34>> \o Flatten([i \in 1..Len(s) |-> EscapeChar(s[i])]) \o <<34>>

RECURSIVE Join(_)
Join(parts) ==
    IF parts = <<>> THEN <<>>
    ELSE IF Len(parts) = 1 THEN parts[1]
    ELSE parts[1] \o <<44>> \o Join(Tail(parts))

\* The text of a value that has one ("undefined" has none; inside an array it
\* is written as null, inside an object its member is left out).
RECURSIVE Stringify(_)
Stringify(v) ==
    CASE v.t = "num"  -> IF v.n < 0 THEN <<45>> \o Digits(0 - v.n) ELSE Digits(v.n)
      [] v.t = "str"  -> Quote(v.s)
      [] v.t = "null" -> <<110, 117, 108, 108>>
      [] v.t = "bool" -> IF v.b THEN <<116, 114, 117, 101>>
                         ELSE <<102, 97, 108, 115, 101>>
      [] v.t = "arr"  ->
            <<91>> \o Join([i \in 1..Len(v.items) |->
                              IF v.items[i].t = "undefined"
                              THEN <<110, 117, 108, 108>>
                              ELSE Stringify(v.items[i])]) \o <<93>>
      [] v.t = "obj"  ->
            LET kept == SelectSeq(v.members, LAMBDA m : m.v.t # "undefined") IN
            <<123>> \o Join([i \in 1..Len(kept) |->
                              Quote(kept[i].k) \o <<58>> \o Stringify(kept[i].v)])
                    \o <<125>>
      [] OTHER -> <<>>

\* JSON.stringify(undefined) is undefined, and Buffer.from(undefined) throws.
HasJsonText(v) == v.t # "undefined"

-----------------------------------------------------------------------------
(* JSON.parse: a recursive-descent parser over code points.  Every parser   *)
(* returns [ok, v, next]: next is the 1-based index after what it consumed. *)

PFail == [ok |-> FALSE, v |-> [t |-> "null"], next |-> 0]
POk(v, next) == [ok |-> TRUE, v |-> v, next |-> next]

IsWs(c) == c = 32 \/ c = 9 \/ c = 10 \/ c = 13
IsDigit(c) == c >= 48 /\ c <= 57

RECURSIVE SkipWs(_, _)
SkipWs(s, i) == IF i <= Len(s) /\ IsWs(s[i]) THEN SkipWs(s, i + 1) ELSE i

Matches(s, i, lit) ==
    /\ i + Len(lit) - 1 <= Len(s)
    /\ SubSeq(s, i, i + Len(lit) - 1) = lit

RECURSIVE PStr(_, _, _)
PStr(s, i, acc) ==
    IF i > Len(s) THEN PFail
    ELSE LET c == s[i] IN
         IF c = 34 THEN POk([t |-> "str", s |-> acc], i + 1)
         ELSE IF c = 92 THEN
              IF i + 1 > Len(s) THEN PFail
              ELSE LET e == s[i + 1] IN
                   IF e = 34 \/ e = 92 \/ e = 47 THEN PStr(s, i + 2, Append(acc, e))
                   ELSE IF e = 110 THEN PStr(s, i + 2, Append(acc, 10))
                   ELSE PFail
         ELSE IF c < 32 THEN PFail
         ELSE PStr(s, i + 1, Append(acc, c))

RECURSIVE PDigits(_, _, _)
PDigits(s, i, acc) ==
    IF i <= Len(s) /\ IsDigit(s[i]) THEN PDigits(s, i + 1, acc * 10 + (s[i] - 48))
    ELSE [n |-> acc, next |-> i]

\* Integers only: "-"? ("0" | [1-9][0-9]*)
PNum(s, i) ==
    LET neg == i <= Len(s) /\ s[i] = 45
        j   == IF neg THEN i + 1 ELSE i
    IN  IF j > Len(s) \/ ~IsDigit(s[j]) THEN PFail
        ELSE IF s[j] = 48 THEN POk([t |-> "num", n |-> 0], j + 1)
        ELSE LET d == PDigits(s, j, 0) IN
             POk([t |-> "num", n |-> IF neg THEN 0 - d.n ELSE d.n], d.next)

RECURSIVE PVal(_, _)
RECURSIVE PItems(_, _, _)
RECURSIVE PMembers(_, _, _)

PVal(s, i0) ==
    LET i == SkipWs(s, i0) IN
    IF i > Len(s) THEN PFail
    ELSE LET c == s[i] IN
         IF c = 34 THEN PStr(s, i + 1, <<>>)
         ELSE IF c = 91 THEN
              LET j == SkipWs(s, i + 1) IN
              IF j <= Len(s) /\ s[j] = 93 THEN POk([t |-> "arr", items |-> <<>>], j + 1)
              ELSE PItems(s, i + 1, <<>>)
         ELSE IF c = 123 THEN
              LET j == SkipWs(s, i + 1) IN
              IF j <= Len(s) /\ s[j] = 125
              THEN POk([t |-> "obj", members |-> <<>>], j + 1)
              ELSE PMembers(s, i + 1, <<>>)
         ELSE IF Matches(s, i, <<110, 117, 108, 108>>) THEN POk([t |-> "null"], i + 4)
         ELSE IF Matches(s, i, <<116, 114, 117, 101>>)
              THEN POk([t |-> "bool", b |-> TRUE], i + 4)
         ELSE IF Matches(s, i, <<102, 97, 108, 115, 101>>)
              THEN POk([t |-> "bool", b |-> FALSE], i + 5)
         ELSE IF c = 45 \/ IsDigit(c) THEN PNum(s, i)
         ELSE PFail

PItems(s, i, acc) ==
    LET r == PVal(s, i) IN
    IF ~r.ok THEN PFail
    ELSE LET j == SkipWs(s, r.next) IN
         IF j > Len(s) THEN PFail
         ELSE IF s[j] = 44 THEN PItems(s, j + 1, Append(acc, r.v))
         ELSE IF s[j] = 93 THEN POk([t |-> "arr", items |-> Append(acc, r.v)], j + 1)
         ELSE PFail

PMembers(s, i0, acc) ==
    LET i == SkipWs(s, i0) IN
    IF i > Len(s) \/ s[i] # 34 THEN PFail
    ELSE LET k == PStr(s, i + 1, <<>>) IN
         IF ~k.ok THEN PFail
         ELSE LET c == SkipWs(s, k.next) IN
              IF c > Len(s) \/ s[c] # 58 THEN PFail
              ELSE LET r == PVal(s, c + 1) IN
                   IF ~r.ok THEN PFail
                   ELSE LET j  == SkipWs(s, r.next)
                            ms == Append(acc, [k |-> k.v.s, v |-> r.v])
                        IN  IF j > Len(s) THEN PFail
                            ELSE IF s[j] = 44 THEN PMembers(s, j + 1, ms)
                            ELSE IF s[j] = 125
                                 THEN POk([t |-> "obj", members |-> ms], j + 1)
                            ELSE PFail

\* JSON.parse(text): [ok, v]; not ok is the SyntaxError.
JsonParse(text) ==
    LET r == PVal(text, 1) IN
    IF r.ok /\ SkipWs(text, r.next) = Len(text) + 1
    THEN [ok |-> TRUE, v |-> r.v]
    ELSE [ok |-> FALSE, v |-> [t |-> "null"]]

-----------------------------------------------------------------------------
(* Binary codec: _serializeBinary / _deserializeBinary *)

U16LE(n) == <<n % 256, (n \div 256) % 256>>

U32LE(n) == <<n % 256, (n \div 256) % 256, (n \div 65536) % 256,
              (n \div 16777216) % 256>>

\* writeBigInt64LE(BigInt(n)): two's complement, for |n| < 2^31.
I64LE(n) ==
    IF n >= 0 THEN U32LE(n) \o <<0, 0, 0, 0>>
    ELSE LET m == (n + 2147483647) + 1
             b == U32LE(m)
         IN  <<b[1], b[2], b[3], b[4] + 128, 255, 255, 255, 255>>

\* The reads throw a RangeError when the field does not fit in the buffer.
CanRead(buf, offset, width) == offset + width <= Len(buf)

ReadU16LE(buf, o) == buf[o + 1] + 256 * buf[o + 2]

\* Numbers of 2^31 and more saturate: they are outside the model's width.
ReadU32LE(buf, o) ==
    IF buf[o + 4] >= 128 THEN 2147483647
    ELSE buf[o + 1] + 256 * buf[o + 2] + 65536 * buf[o + 3] + 16777216 * buf[o + 4]

\* Number(buffer.readBigInt64LE(o))
ReadI64LE(buf, o) ==
    LET hi0 == \A k \in 5..8 : buf[o + k] = 0
        hiF == \A k \in 5..8 : buf[o + k] = 255
        low == buf[o + 1] + 256 * buf[o + 2] + 65536 * buf[o + 3]
               + 16777216 * (buf[o + 4] % 128)
    IN  IF hi0 /\ buf[o + 4] < 128 THEN low
        ELSE IF hiF /\ buf[o + 4] >= 128 THEN (low - 2147483647) - 1
        ELSE IF buf[o + 8] >= 128 THEN 0 - 2147483647
        ELSE 2147483647

\* "SDB"
Magic == <<83, 68, 66>>

\* header.writeUInt8(1, 3)
FormatVersion == 1

\* Header (12 bytes): magic, version, entry count, 4 reserved zero bytes.
Header(count) == Magic \o <<FormatVersion>> \o U32LE(count) \o <<0, 0, 0, 0>>

\* writeUInt16LE throws when the key is longer than 65535 bytes; a value
\* without JSON text makes Buffer.from throw.
EntryEncodable(e) == Len(Utf8Encode(e.key)) <= 65535 /\ HasJsonText(e.value)

\* A variant that writes the key's length in characters.
EntryBytesCharLength(e) ==
    LET keyBuf   == Utf8Encode(e.key)
        valueBuf == Utf8Encode(Stringify(e.value))
    IN  U16LE(Len(e.key)) \o keyBuf \o I64LE(e.expiryTime)
        \o U32LE(Len(valueBuf)) \o valueBuf

\* _serializeBinary, lines 437-468: one entry's bytes
EntryBytes(e) ==
    LET keyBuf   == Utf8Encode(e.key)
        valueBuf == Utf8Encode(Stringify(e.value))
    IN  U16LE(Len(keyBuf)) \o keyBuf \o I64LE(e.expiryTime)
        \o U32LE(Len(valueBuf)) \o valueBuf

\* A variant that leaves out the entries it cannot encode.
SerializeBinarySkipsBad(entries) ==
    LET good == SelectSeq(entries, EntryEncodable) IN
    [ok |-> TRUE,
     bytes |-> Header(Len(good)) \o Flatten([i \in 1..Len(good) |-> EntryBytes(good[i])])]

\* _serializeBinary(entries): [ok, bytes]; not ok is the thrown error.
SerializeBinary(entries) ==
    IF \A i \in 1..Len(entries) : EntryEncodable(entries[i])
    THEN [ok |-> TRUE,
          bytes |-> Header(Len(entries))
                    \o Flatten([i \in 1..Len(entries) |-> EntryBytes(entries[i])])]
    ELSE [ok |-> FALSE, bytes |-> <<>>]

\* buffer.toString('ascii', 0, 3): the high bit of each byte is dropped.
AsciiString(bytes) == [i \in 1..Len(bytes) |-> bytes[i] % 128]

DFail(err) == [ok |-> FALSE, err |-> err, entries |-> <<>>]

RECURSIVE DecodeEntries(_, _, _, _)
DecodeEntries(buf, offset, remaining, acc) ==
    IF remaining = 0 THEN [ok |-> TRUE, err |-> "", entries |-> acc]
    ELSE IF ~CanRead(buf, offset, 2) THEN DFail("RangeError")
    ELSE
      LET keyLength == ReadU16LE(buf, offset)
          o1  == offset + 2
          key == Utf8Decode(Slice(buf, o1, o1 + keyLength))
          o2  == o1 + keyLength
      IN
      IF ~CanRead(buf, o2, 8) THEN DFail("RangeError")
      ELSE
        LET expiryTime == ReadI64LE(buf, o2)
            o3 == o2 + 8
        IN
        IF ~CanRead(buf, o3, 4) THEN DFail("RangeError")
        ELSE
          LET valueLength == ReadU32LE(buf, o3)
              o4 == o3 + 4
              parsed == JsonParse(Utf8Decode(Slice(buf, o4, o4 + valueLength)))
          IN
          IF ~parsed.ok THEN DFail("SyntaxError")
          ELSE DecodeEntries(buf, o4 + valueLength, remaining - 1,
                   Append(acc, [key |-> key, value |-> parsed.v,
                                expiryTime |-> expiryTime]))

\* _deserializeBinary(buffer): [ok, err, entries]
DeserializeBinary(buffer) ==
    IF AsciiString(Slice(buffer, 0, 3)) # Magic THEN DFail("Invalid SDB file format")
    ELSE IF ~CanRead(buffer, 3, 1) THEN DFail("RangeError")
    ELSE IF buffer[4] # FormatVersion THEN DFail("Unsupported SDB version")
    ELSE IF ~CanRead(buffer, 4, 4) THEN DFail("RangeError")
    ELSE DecodeEntries(buffer, 12, ReadU32LE(buffer, 4), <<>>)

-----------------------------------------------------------------------------
(* The bounded universe of inputs *)

\* "é" (two bytes in UTF-8) and "1"
KeyE == <<233>>
KeyOne == <<49>>
Keys == {KeyE, KeyOne}

\* What a caller passes as a key: a string, or the number 1.
KeyInputs == {[t |-> "str", s |-> KeyE], [t |-> "str", s |-> KeyOne],
              [t |-> "num", n |-> 1]}

\* What a caller passes as ttl: nothing (undefined), or a number of seconds.
NoTtl == [given |-> FALSE, v |-> 0]
Ttl(v) == [given |-> TRUE, v |-> v]

KeyStrE == [t |-> "str", s |-> KeyE]
KeyStrOne == [t |-> "str", s |-> KeyOne]
KeyNumOne == [t |-> "num", n |-> 1]

\* "q\"" : a string with a character that JSON escapes
ValStr == [t |-> "str", s |-> <<113, 34>>]
\* {"id":1,"tags":["é",null]} : a nested structured value
ValObj == [t |-> "obj", members |-> <<
              [k |-> <<105, 100>>, v |-> [t |-> "num", n |-> 1]],
              [k |-> <<116, 97, 103, 115>>,
               v |-> [t |-> "arr", items |-> <<[t |-> "str", s |-> <<233>>],
                                               [t |-> "null"]>>]]>>]
\* -42
ValNum == [t |-> "num", n |-> 0 - 42]
Values == {ValStr, ValObj}

\* The set(key, value, ttl) calls a caller makes.
SetInputs == {[key |-> KeyStrE,   value |-> ValObj, ttl |-> Ttl(1)],
              [key |-> KeyNumOne, value |-> ValStr, ttl |-> NoTtl],
              [key |-> KeyStrOne, value |-> ValObj, ttl |-> Ttl(2)],
              [key |-> KeyStrE,   value |-> ValStr, ttl |-> Ttl(0)]}

-----------------------------------------------------------------------------
(* Bounds of the model *)

\* instance ids are 1..NumInstances, constructed in this order
NumInstances == 3
\* the clock runs from 0 to MaxNow seconds
MaxNow == 3
\* API calls (constructor, set, get, del, flush, destroy) in one run
MaxOps == 4
\* injected I/O errors in one run
MaxFaults == 1

\* seconds to milliseconds (saveDelay * 1000, checkInterval * 1000, ttl * 1000);
\* the clock of the model advances one second at a time
MsPerSecond == 1000

InstIds == 1..NumInstances

-----------------------------------------------------------------------------
(* Paths and the file system.  The process runs with its working directory  *)
(* equal to the main script's directory, "/app".                            *)

PathAbs == "/app/.cache/cache.sdb"
PathRel == ".cache/cache.sdb"
Paths == {PathAbs, PathRel}
NoPath == ""

CacheName == "cache"

\* _getPathFromName(name): path.join(mainDir, '.cache', `${name}.sdb`)
GetPathFromName(name) == IF name = CacheName THEN PathAbs ELSE NoPath

FileTarget == "/app/.cache/cache.sdb"
FileTemp == "/app/.cache/cache.sdb.tmp"
Files == {FileTarget, FileTemp}

\* The file a path names (fs resolves a relative path against the cwd).
Resolve(path) == FileTarget

\* The file that persistPath + '.tmp' names.
ResolveTemp(path) == FileTemp

Absent == [exists |-> FALSE, bytes |-> <<>>]
FileOf(bytes) == [exists |-> TRUE, bytes |-> bytes]

-----------------------------------------------------------------------------
(* The two Maps of an instance.  store keeps insertion order (a sequence of *)
(* [key, value]); expiries is a function from the keys that have an expiry. *)

EmptyMap == [k \in {} |-> 0]

StoreHas(store, key) == \E i \in 1..Len(store) : store[i].key = key

StoreGet(store, key) ==
    store[CHOOSE i \in 1..Len(store) : store[i].key = key].value

\* Map.set: a present key keeps its place, a new key goes last.
\* A variant that keeps the value a key already has.
StoreSetKeepsFirst(store, key, value) ==
    IF StoreHas(store, key) THEN store
    ELSE Append(store, [key |-> key, value |-> value])

\* Map.prototype.set
StoreSet(store, key, value) ==
    IF StoreHas(store, key)
    THEN [i \in 1..Len(store) |->
            IF store[i].key = key THEN [key |-> key, value |-> value] ELSE store[i]]
    ELSE Append(store, [key |-> key, value |-> value])

StoreDelete(store, key) == SelectSeq(store, LAMBDA e : e.key # key)

MapSet(m, key, x) == [k \in (DOMAIN m) \cup {key} |-> IF k = key THEN x ELSE m[k]]

MapDelete(m, key) == [k \in (DOMAIN m) \ {key} |-> m[k]]

StoreKeys(store) == {store[i].key : i \in 1..Len(store)}

-----------------------------------------------------------------------------
(* Timers.  A handle field (cleanupInterval, _saveTimeout) is null or names *)
(* the time its timer fires at; the timers themselves live in the runtime's *)
(* queue: inst.timeouts (setTimeout) and inst.intervals (setInterval).      *)

NullTimer == [armed |-> FALSE, at |-> 0]
Timer(at) == [armed |-> TRUE, at |-> at]

\* constructor: options.checkInterval || 5
DefaultCheckInterval == 5
\* constructor: options.saveDelay || 3
DefaultSaveDelay == 3

\* A variant that starts a second interval when one is running.
StartCleanupAlways(c, t) ==
    LET at == t + c.checkInterval * MsPerSecond IN
    [c EXCEPT !.cleanupInterval = Timer(at), !.intervals = @ \cup {at}]

\* _startCleanup()
StartCleanup(c, t) ==
    IF c.cleanupInterval.armed THEN c
    ELSE LET at == t + c.checkInterval * MsPerSecond IN
         [c EXCEPT !.cleanupInterval = Timer(at), !.intervals = @ \cup {at}]

\* A variant that leaves the interval running.
StopCleanupNever(c) == c

\* A variant that forgets the handle without the clearInterval.
StopCleanupKeepsInterval(c) == [c EXCEPT !.cleanupInterval = NullTimer]

\* _stopCleanup()
StopCleanup(c) ==
    IF c.cleanupInterval.armed
    THEN [c EXCEPT !.intervals = @ \ {c.cleanupInterval.at},
                   !.cleanupInterval = NullTimer]
    ELSE c

\* The mutation that arms the timer opens a burst when the writer was idle.
NoteMutation(c, t) ==
    [c EXCEPT !.burstFirstAt = IF c.timeouts = {} THEN t ELSE @,
              !.burstSaves = IF c.timeouts = {} THEN 0 ELSE @,
              !.lastMutAt = t]

\* A variant without the clearTimeout.
ScheduleSaveNoClear(c, t) ==
    LET at == t + c.saveDelay * MsPerSecond
        m  == NoteMutation(c, t)
    IN  [m EXCEPT !.timeouts = @ \cup {at}, !.saveTimeout = Timer(at)]

\* A variant that leaves an armed timer as it is.
ScheduleSaveKeepFirst(c, t) ==
    LET at == t + c.saveDelay * MsPerSecond
        m  == NoteMutation(c, t)
    IN  IF c.saveTimeout.armed THEN m
        ELSE [m EXCEPT !.timeouts = @ \cup {at}, !.saveTimeout = Timer(at)]

\* _scheduleSave(): clearTimeout of the armed timer, then a new setTimeout
ScheduleSave(c, t) ==
    LET at == t + c.saveDelay * MsPerSecond
        m  == NoteMutation(c, t)
        cleared == IF c.saveTimeout.armed THEN m.timeouts \ {c.saveTimeout.at}
                   ELSE m.timeouts
    IN  [m EXCEPT !.timeouts = cleared \cup {at}, !.saveTimeout = Timer(at)]

\* _cancelScheduledSave()
CancelScheduledSave(c) ==
    IF c.saveTimeout.armed
    THEN [c EXCEPT !.timeouts = @ \ {c.saveTimeout.at}, !.saveTimeout = NullTimer]
    ELSE c

-----------------------------------------------------------------------------
(* The methods of SimpleCache, as functions of the object c and the time t  *)

\* A variant that uses a numeric key as it is.
StringKeyRaw(key) == IF key.t = "num" THEN <<key.n>> ELSE key.s

\* String(key)
StringKey(key) ==
    IF key.t = "num"
    THEN (IF key.n < 0 THEN <<45>> \o Digits(0 - key.n) ELSE Digits(key.n))
    ELSE key.s

Unborn ==
    [status |-> "unborn", store |-> <<>>, expiries |-> EmptyMap,
     defaultTtl |-> 0, checkInterval |-> 0, persistent |-> FALSE,
     saveDelay |-> 0, persistPath |-> NoPath,
     cleanupInterval |-> NullTimer, saveTimeout |-> NullTimer,
     timeouts |-> {}, intervals |-> {}, wrapping |-> <<>>,
     lastMutAt |-> 0, burstFirstAt |-> 0, burstSaves |-> 0]

\* A variant that reads ttl || this.defaultTtl.
EffectiveTtlOrDefault(c, ttl) == IF ttl.given /\ ttl.v # 0 THEN ttl.v ELSE c.defaultTtl

\* typeof ttl === "number" ? ttl : this.defaultTtl
EffectiveTtl(c, ttl) == IF ttl.given THEN ttl.v ELSE c.defaultTtl

\* set(key, value, ttl)
SetOp(c, key, value, ttl, t) ==
    LET stringKey == StringKey(key)
        eff == EffectiveTtl(c, ttl)
        c1 == [c EXCEPT !.store = StoreSet(@, stringKey, value)]
        c2 == IF eff > 0
              THEN LET e == [c1 EXCEPT !.expiries = MapSet(@, stringKey, t + eff * MsPerSecond)]
                   IN  IF ~e.cleanupInterval.armed THEN StartCleanup(e, t) ELSE e
              ELSE [c1 EXCEPT !.expiries = MapDelete(@, stringKey)]
    IN  IF c2.persistent THEN ScheduleSave(c2, t) ELSE c2

\* A variant that keeps an entry at its expiry instant.
ExpiredLate(expiryTime, t) == t > expiryTime

\* The expiry test of get() and of the sweep: Date.now() >= expiryTime
Expired(expiryTime, t) == t >= expiryTime

\* get(key): [c, ret]; ret is the value, or null
GetOp(c, key, t) ==
    LET stringKey == StringKey(key) IN
    IF ~StoreHas(c.store, stringKey) THEN [c |-> c, ret |-> [t |-> "null"]]
    ELSE IF stringKey \in DOMAIN c.expiries /\ Expired(c.expiries[stringKey], t)
    THEN [c |-> [c EXCEPT !.store = StoreDelete(@, stringKey),
                          !.expiries = MapDelete(@, stringKey)],
          ret |-> [t |-> "null"]]
    ELSE [c |-> c, ret |-> StoreGet(c.store, stringKey)]

\* A variant that leaves the key's expiry behind.
DelOpKeepsExpiry(c, key, t) ==
    LET stringKey == StringKey(key)
        deleted == IF StoreHas(c.store, stringKey) THEN 1 ELSE 0
        c1 == [c EXCEPT !.store = StoreDelete(@, stringKey)]
    IN  [c |-> IF deleted = 1 /\ c.persistent THEN ScheduleSave(c1, t) ELSE c1,
         deleted |-> deleted]

\* A variant that schedules a save whether or not the key was there.
DelOpAlwaysSchedules(c, key, t) ==
    LET stringKey == StringKey(key)
        deleted == IF StoreHas(c.store, stringKey) THEN 1 ELSE 0
        c1 == [c EXCEPT !.expiries = MapDelete(@, stringKey),
                        !.store = StoreDelete(@, stringKey)]
    IN  [c |-> IF c.persistent THEN ScheduleSave(c1, t) ELSE c1,
         deleted |-> deleted]

\* A variant that treats a key that has passed its expiry as not found.
DelOpSkipsExpired(c, key, t) ==
    LET stringKey == StringKey(key)
        c1 == [c EXCEPT !.expiries = MapDelete(@, stringKey),
                        !.store = StoreDelete(@, stringKey)]
        deleted == IF StoreHas(c.store, stringKey)
                      /\ ~(stringKey \in DOMAIN c.expiries
                           /\ Expired(c.expiries[stringKey], t))
                   THEN 1 ELSE 0
    IN  [c |-> IF deleted = 1 /\ c.persistent THEN ScheduleSave(c1, t) ELSE c1,
         deleted |-> deleted]

\* A variant that never schedules a save.
DelOpNeverSchedules(c, key, t) ==
    LET stringKey == StringKey(key)
        deleted == IF StoreHas(c.store, stringKey) THEN 1 ELSE 0
    IN  [c |-> [c EXCEPT !.expiries = MapDelete(@, stringKey),
                         !.store = StoreDelete(@, stringKey)],
         deleted |-> deleted]

\* del(key): [c, deleted]
DelOp(c, key, t) ==
    LET stringKey == StringKey(key)
        deleted == IF StoreHas(c.store, stringKey) THEN 1 ELSE 0
        c1 == [c EXCEPT !.expiries = MapDelete(@, stringKey),
                        !.store = StoreDelete(@, stringKey)]
    IN  [c |-> IF deleted = 1 /\ c.persistent THEN ScheduleSave(c1, t) ELSE c1,
         deleted |-> deleted]

\* The writer is idle again: the burst is over.
EndBurst(c) == [c EXCEPT !.lastMutAt = 0, !.burstFirstAt = 0, !.burstSaves = 0]

\* wrap(key, fn, ttl) up to its await, lines 538-541: the cached value, or fn is
\* called and the call waits for its result.  [c, ret, called]
WrapOp(c, key, ttl, t) ==
    LET r == GetOp(c, key, t) IN
    IF r.ret # [t |-> "null"]
    THEN [c |-> r.c, ret |-> r.ret, called |-> FALSE]
    ELSE [c |-> [r.c EXCEPT !.wrapping = Append(@, [key |-> key, ttl |-> ttl])],
          ret |-> [t |-> "undefined"], called |-> TRUE]

\* The sequence s without its n-th element.
Without(s, n) == SubSeq(s, 1, n - 1) \o SubSeq(s, n + 1, Len(s))

\* wrap after its await, lines 542-543, for the n-th waiting call:
\* this.set(key, result, ttl)
WrapStore(c, n, result, t) ==
    SetOp([c EXCEPT !.wrapping = Without(@, n)],
          c.wrapping[n].key, result, c.wrapping[n].ttl, t)

\* A variant that leaves the pending save in place.
FlushOpKeepsTimer(c) == [StopCleanup(c) EXCEPT !.expiries = EmptyMap, !.store = <<>>]

\* flush()
FlushOp(c) ==
    LET c1 == [StopCleanup(c) EXCEPT !.expiries = EmptyMap, !.store = <<>>]
    IN  IF c1.persistent THEN EndBurst(CancelScheduledSave(c1)) ELSE c1

\* A variant that keeps an entry at its expiry instant.
SweepLate(c, t) ==
    LET dead == {k \in DOMAIN c.expiries : t > c.expiries[k]} IN
    [c EXCEPT !.store = SelectSeq(@, LAMBDA e : e.key \notin dead),
              !.expiries = [k \in (DOMAIN c.expiries) \ dead |-> c.expiries[k]]]

\* The body of the cleanup interval's callback.
Sweep(c, t) ==
    LET dead == {k \in DOMAIN c.expiries : Expired(c.expiries[k], t)} IN
    [c EXCEPT !.store = SelectSeq(@, LAMBDA e : e.key \notin dead),
              !.expiries = [k \in (DOMAIN c.expiries) \ dead |-> c.expiries[k]]]

\* this.expiries.get(key) || 0
ExpiryOrZero(c, key) == IF key \in DOMAIN c.expiries THEN c.expiries[key] ELSE 0

\* Variants of the filter: none, and one that keeps an entry at its expiry instant.
SaveKeepsAll(expiryTime, t) == TRUE

SaveKeepsLate(expiryTime, t) == ~(expiryTime > 0 /\ t > expiryTime)

\* _saveToBinary's filter: an entry is kept unless expiryTime > 0 && now >= expiryTime
SaveKeeps(expiryTime, t) == ~(expiryTime > 0 /\ t >= expiryTime)

\* A variant that writes the time an entry has left instead of its expiry.
SaveEntriesRemaining(c, t) ==
    LET all == [i \in 1..Len(c.store) |->
                  [key |-> c.store[i].key, value |-> c.store[i].value,
                   expiryTime |-> ExpiryOrZero(c, c.store[i].key)]]
        kept == SelectSeq(all, LAMBDA e : SaveKeeps(e.expiryTime, t))
    IN  [n \in 1..Len(kept) |->
           [kept[n] EXCEPT !.expiryTime = IF @ > 0 THEN @ - t ELSE 0]]

\* _saveToBinary, lines 385-398: the entries to write, in the store's order
SaveEntries(c, t) ==
    LET all == [i \in 1..Len(c.store) |->
                  [key |-> c.store[i].key, value |-> c.store[i].value,
                   expiryTime |-> ExpiryOrZero(c, c.store[i].key)]]
    IN  SelectSeq(all, LAMBDA e : SaveKeeps(e.expiryTime, t))

\* A variant without the filter.
LoadKeepsAll(expiryTime, t) == TRUE

\* _loadFromBinary's filter: skipped if expiryTime > 0 && now >= expiryTime
LoadKeeps(expiryTime, t) == ~(expiryTime > 0 /\ t >= expiryTime)

\* A variant that records an entry's expiry before it looks whether the entry
\* has expired.
RECURSIVE LoadEntriesExpiryFirst(_, _, _)
LoadEntriesExpiryFirst(c, entries, t) ==
    IF entries = <<>> THEN c
    ELSE LET e  == Head(entries)
             c0 == IF e.expiryTime > 0
                   THEN [c EXCEPT !.expiries = MapSet(@, e.key, e.expiryTime)]
                   ELSE c
         IN  IF ~LoadKeeps(e.expiryTime, t)
             THEN LoadEntriesExpiryFirst(c0, Tail(entries), t)
             ELSE LoadEntriesExpiryFirst([c0 EXCEPT !.store = StoreSet(@, e.key, e.value)],
                                         Tail(entries), t)

\* _loadFromBinary's loop over the decoded entries
RECURSIVE LoadEntries(_, _, _)
LoadEntries(c, entries, t) ==
    IF entries = <<>> THEN c
    ELSE LET e == Head(entries) IN
         IF ~LoadKeeps(e.expiryTime, t) THEN LoadEntries(c, Tail(entries), t)
         ELSE LET c1 == [c EXCEPT !.store = StoreSet(@, e.key, e.value)]
                  c2 == IF e.expiryTime > 0
                        THEN [c1 EXCEPT !.expiries = MapSet(@, e.key, e.expiryTime)]
                        ELSE c1
              IN  LoadEntries(c2, Tail(entries), t)

\* _loadFromBinary(): a missing file and any error leave the store as it is
LoadFromBinary(c, d, t) ==
    LET f == d.files[Resolve(c.persistPath)] IN
    IF ~f.exists THEN c
    ELSE LET dec == DeserializeBinary(f.bytes) IN
         IF ~dec.ok THEN c ELSE LoadEntries(c, dec.entries, t)

-----------------------------------------------------------------------------
(* _saveToBinary: filter, serialize, mkdir, write the temp file, rename.    *)
(* The stage says how far the file system calls got: "mkdir" (mkdirSync     *)
(* threw), "open" (the temp file could not be opened), "partial" (the temp  *)
(* write stopped half way), "written" (renameSync did not happen), "done".  *)

Stages == {"mkdir", "open", "partial", "written", "done"}

StagePossible(d, stage) == stage = "mkdir" => ~d.dir

\* A variant that writes the target file in place.
SaveToBinaryDirect(c, d, t, stage) ==
    LET ser    == SerializeBinary(SaveEntries(c, t))
        target == Resolve(c.persistPath)
    IN  IF ~ser.ok \/ stage = "mkdir" THEN d
        ELSE IF stage = "open" THEN [d EXCEPT !.dir = TRUE]
        ELSE IF stage = "partial"
             THEN [d EXCEPT !.dir = TRUE,
                            !.files[target] =
                                FileOf(SubSeq(ser.bytes, 1, Len(ser.bytes) \div 2))]
        ELSE [d EXCEPT !.dir = TRUE, !.files[target] = FileOf(ser.bytes)]

\* A variant that removes the old snapshot before it writes the new one.
SaveToBinaryUnlinkFirst(c, d, t, stage) ==
    LET ser    == SerializeBinary(SaveEntries(c, t))
        target == Resolve(c.persistPath)
    IN  IF ~ser.ok \/ stage = "mkdir" THEN d
        ELSE IF stage = "done"
             THEN [d EXCEPT !.dir = TRUE, !.files[target] = FileOf(ser.bytes)]
        ELSE [d EXCEPT !.dir = TRUE, !.files[target] = Absent]

\* The file system after _saveToBinary() that got as far as stage.
SaveToBinary(c, d, t, stage) ==
    LET ser    == SerializeBinary(SaveEntries(c, t))
        target == Resolve(c.persistPath)
        temp   == ResolveTemp(c.persistPath)
    IN  IF ~ser.ok \/ stage = "mkdir" THEN d
        ELSE IF stage = "open" THEN [d EXCEPT !.dir = TRUE]
        ELSE IF stage = "partial"
             THEN [d EXCEPT !.dir = TRUE,
                            !.files[temp] =
                                FileOf(SubSeq(ser.bytes, 1, Len(ser.bytes) \div 2))]
        ELSE IF stage = "written"
             THEN [d EXCEPT !.dir = TRUE, !.files[temp] = FileOf(ser.bytes)]
        ELSE [d EXCEPT !.dir = TRUE, !.files[temp] = Absent,
                       !.files[target] = FileOf(ser.bytes)]

\* History: what the last completed write put at the target path.
NoSnap == [has |-> FALSE, by |-> 0, at |-> 0, entries |-> <<>>]

SnapAfter(sn, i, c, t, stage) ==
    IF stage = "done" /\ SerializeBinary(SaveEntries(c, t)).ok
    THEN [has |-> TRUE, by |-> i, at |-> t, entries |-> SaveEntries(c, t)]
    ELSE sn

-----------------------------------------------------------------------------
(* Constructor options *)

CfgAbs  == [persistent |-> TRUE, persistPath |-> PathAbs, name |-> "",
            saveDelay |-> 2, checkInterval |-> 2, defaultTtl |-> 0]
CfgRel  == [persistent |-> TRUE, persistPath |-> PathRel, name |-> "",
            saveDelay |-> 0, checkInterval |-> 0, defaultTtl |-> 1]
CfgName == [persistent |-> TRUE, persistPath |-> "", name |-> CacheName,
            saveDelay |-> 2, checkInterval |-> 2, defaultTtl |-> 0]
CfgNone == [persistent |-> TRUE, persistPath |-> "", name |-> "",
            saveDelay |-> 1, checkInterval |-> 1, defaultTtl |-> 0]
CfgMem  == [persistent |-> FALSE, persistPath |-> "", name |-> "",
            saveDelay |-> 0, checkInterval |-> 2, defaultTtl |-> 1]
Configs == {CfgAbs, CfgRel, CfgName, CfgNone, CfgMem}

\* A variant that starts the sweep interval before the path is looked at.
NewObjectStartsCleanup(cfg) ==
    LET ci == IF cfg.checkInterval # 0 THEN cfg.checkInterval ELSE DefaultCheckInterval
        at == now + ci * MsPerSecond
    IN  [Unborn EXCEPT
            !.defaultTtl = cfg.defaultTtl,
            !.checkInterval = ci,
            !.persistent = cfg.persistent,
            !.saveDelay = IF cfg.saveDelay # 0 THEN cfg.saveDelay ELSE DefaultSaveDelay,
            !.cleanupInterval = Timer(at),
            !.intervals = {at}]

\* constructor, lines 27-49: the fields before the path is looked at
NewObject(cfg) ==
    [Unborn EXCEPT
        !.defaultTtl = cfg.defaultTtl,
        !.checkInterval = IF cfg.checkInterval # 0 THEN cfg.checkInterval
                          ELSE DefaultCheckInterval,
        !.persistent = cfg.persistent,
        !.saveDelay = IF cfg.saveDelay # 0 THEN cfg.saveDelay ELSE DefaultSaveDelay]

\* A variant that falls back to a default path.
ConfiguredPathDefault(cfg) ==
    IF cfg.persistPath # "" THEN cfg.persistPath
    ELSE IF cfg.name # "" THEN GetPathFromName(cfg.name)
    ELSE PathAbs

\* constructor, lines 52-62: persistPath, or NoPath when neither option is given
ConfiguredPath(cfg) ==
    IF cfg.persistPath # "" THEN cfg.persistPath
    ELSE IF cfg.name # "" THEN GetPathFromName(cfg.name)
    ELSE NoPath

\* No instance: the registry has no entry for the path.
NoInst == 0

\* A variant that finds no path in use.
InUseNever(reg, path) == FALSE

\* _activeFiles.has(path)
InUse(reg, path) == reg[path] # NoInst

-----------------------------------------------------------------------------
(* The state machine *)

\* The process events the cache listens to, and for each the number of
\* process.once calls made and the number of listeners now in place.
HookEvents == {"SIGINT", "SIGTERM", "beforeExit"}

NoHooks == [e \in HookEvents |-> [installed |-> 0, listening |-> 0]]

\* A variant without the _handlersSetup test.
SetupGracefulShutdownAlways(hs, hk) ==
    [e \in HookEvents |-> [installed |-> hk[e].installed + 1,
                           listening |-> hk[e].listening + 1]]

\* _setupGracefulShutdown, lines 338-375: the three process.once calls, made once
SetupGracefulShutdown(hs, hk) ==
    IF hs THEN hk
    ELSE [e \in HookEvents |-> [installed |-> hk[e].installed + 1,
                                listening |-> hk[e].listening + 1]]

NoCfg == [persistent |-> FALSE, persistPath |-> "", name |-> "",
          saveDelay |-> 0, checkInterval |-> 0, defaultTtl |-> 0]

\* The arguments of a set, get or del call.
NoArg == [key |-> [t |-> "none"], value |-> [t |-> "undefined"], ttl |-> NoTtl]
Arg(key, value, ttl) == [key |-> key, value |-> value, ttl |-> ttl]
KeyArg(key) == [NoArg EXCEPT !.key = key]

NoOp ==
    [seq |-> 0, op |-> "init", inst |-> 0, cfg |-> NoCfg, arg |-> NoArg, result |-> "",
     ret |-> [t |-> "undefined"], wrote |-> {},
     saved |-> FALSE, stage |-> "", crash |-> FALSE,
     burstFirst |-> 0, burstLast |-> 0, burstSaves |-> 0, expiry |-> 0]

\* An API call counts against MaxOps; a timer callback or a clock step does not.
Call(op, i, result) ==
    [NoOp EXCEPT !.seq = lastOp.seq + 1, !.op = op, !.inst = i, !.result = result]
Event(op, i) == [NoOp EXCEPT !.seq = lastOp.seq, !.op = op, !.inst = i]

CodecOff == [phase |-> "off", entries |-> <<>>, ok |-> FALSE, bytes |-> <<>>,
             out |-> <<>>, outOk |-> FALSE, err |-> ""]

Init ==
    /\ now = 0
    /\ proc = "running"
    /\ activeFiles = [p \in Paths |-> NoInst]
    /\ instances = {}
    /\ handlersSetup = FALSE
    /\ hooks = NoHooks
    /\ disk = [dir |-> FALSE, files |-> [f \in Files |-> Absent], faults |-> 0]
    /\ inst = [i \in InstIds |-> Unborn]
    /\ snap = NoSnap
    /\ lastOp = NoOp
    /\ codec = CodecOff

\* A timer that is due runs before the next call is made.
NoTimerDue == \A i \in InstIds : \A at \in inst[i].timeouts \cup inst[i].intervals : at > now

CanCall == proc = "running" /\ lastOp.seq < MaxOps /\ NoTimerDue

Reachable(i) == inst[i].status \in {"live", "destroyed"}

\* constructor, lines 76-85: the object once its path is registered
Constructed(cfg, path, d, t) ==
    LET c1 == [NewObject(cfg) EXCEPT !.status = "live", !.persistPath = path]
        c2 == IF cfg.persistent THEN LoadFromBinary(c1, d, t) ELSE c1
    IN  IF c2.defaultTtl > 0 \/ c2.checkInterval > 0 THEN StartCleanup(c2, t) ELSE c2

\* new SimpleCache(defaultTtl, options)
Construct(i, cfg) ==
    /\ CanCall
    /\ inst[i].status \in {"unborn", "failed"}
    /\ \A j \in InstIds : j < i => inst[j].status \notin {"unborn", "failed"}
    /\ LET path == ConfiguredPath(cfg)
           call(result) == [Call("construct", i, result) EXCEPT !.cfg = cfg]
       IN  IF cfg.persistent /\ path = NoPath
           THEN /\ inst' = [inst EXCEPT ![i] = [NewObject(cfg) EXCEPT !.status = "failed"]]
                /\ lastOp' = call("ConfigurationError")
                /\ UNCHANGED <<activeFiles, instances, handlersSetup, hooks>>
           ELSE IF cfg.persistent /\ InUse(activeFiles, path)
           THEN /\ inst' = [inst EXCEPT ![i] = [NewObject(cfg) EXCEPT
                                                   !.status = "failed",
                                                   !.persistPath = path]]
                /\ lastOp' = call("ConflictError")
                /\ UNCHANGED <<activeFiles, instances, handlersSetup, hooks>>
           ELSE IF cfg.persistent
           THEN /\ activeFiles' = [activeFiles EXCEPT ![path] = i]
                /\ instances' = instances \cup {i}
                /\ handlersSetup' = TRUE
                /\ hooks' = SetupGracefulShutdown(handlersSetup, hooks)
                /\ inst' = [inst EXCEPT ![i] = Constructed(cfg, path, disk, now)]
                /\ lastOp' = call("ok")
           ELSE /\ inst' = [inst EXCEPT ![i] = Constructed(cfg, NoPath, disk, now)]
                /\ lastOp' = call("ok")
                /\ UNCHANGED <<activeFiles, instances, handlersSetup, hooks>>
    /\ UNCHANGED <<now, proc, disk, snap, codec>>

Set(i, key, value, ttl) ==
    /\ CanCall
    /\ Reachable(i)
    /\ inst' = [inst EXCEPT ![i] = SetOp(inst[i], key, value, ttl, now)]
    /\ lastOp' = [Call("set", i, "OK") EXCEPT !.arg = Arg(key, value, ttl)]
    /\ UNCHANGED <<now, proc, activeFiles, instances, handlersSetup, hooks, disk, snap, codec>>

Get(i, key) ==
    /\ CanCall
    /\ Reachable(i)
    /\ LET r == GetOp(inst[i], key, now) IN
         /\ inst' = [inst EXCEPT ![i] = r.c]
         /\ lastOp' = [Call("get", i, IF r.c # inst[i] THEN "expired"
                                      ELSE IF r.ret = [t |-> "null"] THEN "miss"
                                      ELSE "hit")
                           EXCEPT !.ret = r.ret, !.arg = KeyArg(key)]
    /\ UNCHANGED <<now, proc, activeFiles, instances, handlersSetup, hooks, disk, snap, codec>>

Del(i, key) ==
    /\ CanCall
    /\ Reachable(i)
    /\ LET r == DelOp(inst[i], key, now) IN
         /\ inst' = [inst EXCEPT ![i] = r.c]
         /\ lastOp' = [Call("del", i, IF r.deleted = 1 THEN "1" ELSE "0")
                           EXCEPT !.arg = KeyArg(key),
                                  !.expiry = ExpiryOrZero(inst[i], StringKey(key))]
    /\ UNCHANGED <<now, proc, activeFiles, instances, handlersSetup, hooks, disk, snap, codec>>

Flush(i) ==
    /\ CanCall
    /\ Reachable(i)
    /\ inst' = [inst EXCEPT ![i] = FlushOp(inst[i])]
    /\ lastOp' = Call("flush", i, IF inst[i].timeouts # {} THEN "cancelled" ELSE "")
    /\ UNCHANGED <<now, proc, activeFiles, instances, handlersSetup, hooks, disk, snap, codec>>

\* wrap(key, fn, ttl): the call, up to the value it returns at once or to the
\* await of fn's result.
WrapCall(i, key, ttl) ==
    /\ CanCall
    /\ Reachable(i)
    /\ LET r == WrapOp(inst[i], key, ttl, now) IN
         /\ inst' = [inst EXCEPT ![i] = r.c]
         /\ lastOp' = [Call("wrap", i, IF r.called THEN "computing" ELSE "cached")
                           EXCEPT !.ret = r.ret, !.arg = Arg(key, [t |-> "undefined"], ttl)]
    /\ UNCHANGED <<now, proc, activeFiles, instances, handlersSetup, hooks, disk, snap, codec>>

\* fn's promise is fulfilled with result: the n-th waiting wrap stores it and
\* returns it.
WrapResume(i, n, result) ==
    /\ proc = "running"
    /\ n \in 1..Len(inst[i].wrapping)
    /\ inst' = [inst EXCEPT ![i] = WrapStore(inst[i], n, result, now)]
    /\ lastOp' = [Event("wrapDone", i) EXCEPT
                     !.ret = result,
                     !.arg = Arg(inst[i].wrapping[n].key, result, inst[i].wrapping[n].ttl)]
    /\ UNCHANGED <<now, proc, activeFiles, instances, handlersSetup, hooks, disk, snap, codec>>

\* fn's promise is rejected: the n-th waiting wrap throws and stores nothing.
WrapReject(i, n) ==
    /\ proc = "running"
    /\ n \in 1..Len(inst[i].wrapping)
    /\ inst' = [inst EXCEPT ![i].wrapping = Without(@, n)]
    /\ lastOp' = [Event("wrapFailed", i) EXCEPT
                     !.arg = Arg(inst[i].wrapping[n].key, [t |-> "undefined"],
                                 inst[i].wrapping[n].ttl)]
    /\ UNCHANGED <<now, proc, activeFiles, instances, handlersSetup, hooks, disk, snap, codec>>

\* A variant that saves whenever the instance is persistent.
DestroySavesAlways(c) == c.persistent

\* destroy(), line 274: a pending save is executed at once
DestroySaves(c) == c.persistent /\ c.saveTimeout.armed

\* A variant that leaves the registry alone.
UnregisterNever(reg, c) == reg

\* destroy(), lines 286-288: _activeFiles.delete(this.persistPath)
Unregister(reg, c) ==
    IF c.persistent THEN [reg EXCEPT ![c.persistPath] = NoInst] ELSE reg

\* An I/O error is injected, or the process dies at that stage.
IoAllowed(stage, crash) ==
    /\ StagePossible(disk, stage)
    /\ stage = "done" \/ crash \/ disk.faults < MaxFaults

DiskAfterSave(i, stage, crash) ==
    [SaveToBinary(inst[i], disk, now, stage) EXCEPT
        !.faults = IF stage # "done" /\ ~crash THEN @ + 1 ELSE @]

SaveRecord(base, c, stage, crash) ==
    [base EXCEPT !.saved = TRUE, !.stage = stage, !.crash = crash,
                 !.wrote = IF stage = "done" THEN {base.inst} ELSE {},
                 !.burstFirst = c.burstFirstAt, !.burstLast = c.lastMutAt,
                 !.burstSaves = c.burstSaves + 1]

Destroy(i, stage, crash) ==
    /\ CanCall
    /\ Reachable(i)
    /\ LET c == inst[i] IN
       IF DestroySaves(c)
       THEN /\ IoAllowed(stage, crash)
            /\ disk' = DiskAfterSave(i, stage, crash)
            /\ snap' = SnapAfter(snap, i, c, now, stage)
            /\ lastOp' = SaveRecord(Call("destroy", i, ""), c, stage, crash)
            /\ IF crash
               THEN /\ proc' = "crashed"
                    /\ UNCHANGED <<inst, activeFiles, instances>>
               ELSE /\ proc' = proc
                    /\ instances' = instances \ {i}
                    /\ activeFiles' = Unregister(activeFiles, c)
                    /\ inst' = [inst EXCEPT ![i] =
                           [FlushOp(StopCleanup(CancelScheduledSave(c)))
                               EXCEPT !.status = "destroyed"]]
       ELSE /\ stage = "done" /\ ~crash
            /\ instances' = instances \ {i}
            /\ activeFiles' = Unregister(activeFiles, c)
            /\ inst' = [inst EXCEPT ![i] =
                   [FlushOp(StopCleanup(c)) EXCEPT !.status = "destroyed"]]
            /\ lastOp' = Call("destroy", i, "")
            /\ UNCHANGED <<disk, snap, proc>>
    /\ UNCHANGED <<now, handlersSetup, hooks, codec>>

\* A variant in which the save removes the entries it found expired.
AfterSaveTimerDropsExpired(c, at) ==
    LET c1 == [Sweep(c, now) EXCEPT !.timeouts = @ \ {at}, !.saveTimeout = NullTimer]
    IN  IF c1.timeouts = {} THEN EndBurst(c1) ELSE [c1 EXCEPT !.burstSaves = @ + 1]

\* The object after the callback: _saveToBinary() read the store, and the handle
\* is null.
AfterSaveTimer(c, at) ==
    LET c1 == [c EXCEPT !.timeouts = @ \ {at}, !.saveTimeout = NullTimer]
    IN  IF c1.timeouts = {} THEN EndBurst(c1) ELSE [c1 EXCEPT !.burstSaves = @ + 1]

\* The setTimeout callback of _scheduleSave: _saveToBinary(); _saveTimeout = null
SaveTimerFire(i, at, stage, crash) ==
    /\ proc = "running"
    /\ at \in inst[i].timeouts
    /\ at <= now
    /\ IoAllowed(stage, crash)
    /\ LET c == inst[i] IN
         /\ disk' = DiskAfterSave(i, stage, crash)
         /\ snap' = SnapAfter(snap, i, c, now, stage)
         /\ lastOp' = SaveRecord(Event("saveTimer", i), c, stage, crash)
         /\ IF crash
            THEN proc' = "crashed" /\ inst' = inst
            ELSE /\ proc' = proc
                 /\ inst' = [inst EXCEPT ![i] = AfterSaveTimer(c, at)]
    /\ UNCHANGED <<now, activeFiles, instances, handlersSetup, hooks, codec>>

\* The setInterval callback of _startCleanup; the interval then runs on.
SweepFire(i, at) ==
    /\ proc = "running"
    /\ at \in inst[i].intervals
    /\ at <= now
    /\ LET c  == Sweep(inst[i], now)
           nx == at + c.checkInterval * MsPerSecond
       IN  inst' = [inst EXCEPT ![i] =
                      [c EXCEPT !.intervals = (@ \ {at}) \cup {nx},
                                !.cleanupInterval =
                                    IF @.armed /\ @.at = at THEN Timer(nx) ELSE @]]
    /\ lastOp' = Event("sweep", i)
    /\ UNCHANGED <<now, proc, activeFiles, instances, handlersSetup, hooks, disk, snap, codec>>

\* SimpleCache._instances in iteration order: the order of construction.
InOrder(S) == SelectSeq([i \in 1..NumInstances |-> i], LAMBDA i : i \in S)

\* A variant that saves only an instance with a pending save.
SignalSavesPending(c) == Len(c.store) # 0 /\ c.saveTimeout.armed

\* globalSaveHandler, line 345: an instance with an empty store is passed over
SignalSaves(c) == Len(c.store) # 0

\* A variant that saves every instance with entries.
BeforeExitSavesNonEmpty(c) == Len(c.store) # 0

\* beforeExitHandler, line 361: an instance with a pending save
BeforeExitSaves(c) == c.saveTimeout.armed

\* The _saveToBinary calls of a handler's loop, one for each of ids in turn.  The
\* call of instance f gets as far as stage, every other call completes; with crash
\* the process dies in f's call.  [disk, snap, wrote, died]
RECURSIVE HookSaves(_, _, _, _, _, _)
HookSaves(ids, d, sn, f, stage, crash) ==
    IF ids = <<>> THEN [disk |-> d, snap |-> sn, wrote |-> {}, died |-> FALSE]
    ELSE LET i   == Head(ids)
             st  == IF i = f THEN stage ELSE "done"
             d1  == [SaveToBinary(inst[i], d, now, st) EXCEPT
                        !.faults = IF st # "done" /\ ~crash THEN @ + 1 ELSE @]
             sn1 == SnapAfter(sn, i, inst[i], now, st)
             me  == IF st = "done" THEN {i} ELSE {}
         IN  IF i = f /\ crash
             THEN [disk |-> d1, snap |-> sn1, wrote |-> me, died |-> TRUE]
             ELSE LET r == HookSaves(Tail(ids), d1, sn1, f, stage, crash)
                  IN  [r EXCEPT !.wrote = @ \cup me]

\* Which call of the loop, if any, fails or is the one the process dies in.
HookFault(ids, f, stage, crash) ==
    IF f = NoInst THEN stage = "done" /\ ~crash
    ELSE /\ \E n \in 1..Len(ids) : ids[n] = f
         /\ crash \/ (stage # "done" /\ disk.faults < MaxFaults)
         /\ stage = "mkdir" => (~disk.dir /\ f = Head(ids))

HookRecord(op, f, stage, crash, r, handled) ==
    [Call(op, f, IF handled THEN "handled" ELSE "default") EXCEPT
        !.saved = r.wrote # {}, !.stage = stage, !.crash = crash, !.wrote = r.wrote]

\* SIGINT or SIGTERM arrives.  With the cache's listener in place,
\* globalSaveHandler runs and calls process.exit(0); without it the signal ends
\* the process.
Signal(sig, f, stage, crash) ==
    /\ CanCall
    /\ LET handled == hooks[sig].listening > 0
           ids == IF handled
                  THEN InOrder({i \in instances : SignalSaves(inst[i])})
                  ELSE <<>>
       IN  /\ HookFault(ids, f, stage, crash)
           /\ \E r \in {HookSaves(ids, disk, snap, f, stage, crash)} :
                 /\ disk' = r.disk
                 /\ snap' = r.snap
                 /\ proc' = IF r.died THEN "crashed" ELSE "exited"
                 /\ lastOp' = HookRecord(sig, f, stage, crash, r, handled)
           /\ hooks' = IF handled THEN [hooks EXCEPT ![sig].listening = @ - 1] ELSE hooks
    /\ UNCHANGED <<now, activeFiles, instances, handlersSetup, inst, codec>>

\* The event loop runs empty (every timer of the cache is unref'd) and the process
\* emits beforeExit; beforeExitHandler runs if the cache's listener is in place.
\* The process then exits, or goes on because another listener scheduled work.
BeforeExit(goesOn, f, stage, crash) ==
    /\ CanCall
    /\ LET handled == hooks["beforeExit"].listening > 0
           ids == IF handled
                  THEN InOrder({i \in instances : BeforeExitSaves(inst[i])})
                  ELSE <<>>
       IN  /\ HookFault(ids, f, stage, crash)
           /\ \E r \in {HookSaves(ids, disk, snap, f, stage, crash)} :
                 /\ disk' = r.disk
                 /\ snap' = r.snap
                 /\ proc' = IF r.died THEN "crashed"
                            ELSE IF goesOn THEN "running" ELSE "exited"
                 /\ inst' = [i \in InstIds |->
                               IF ~r.died /\ \E n \in 1..Len(ids) : ids[n] = i
                               THEN EndBurst(CancelScheduledSave(inst[i]))
                               ELSE inst[i]]
                 /\ lastOp' = HookRecord("beforeExit", f, stage, crash, r, handled)
           /\ hooks' = IF handled THEN [hooks EXCEPT !["beforeExit"].listening = @ - 1]
                       ELSE hooks
    /\ UNCHANGED <<now, activeFiles, instances, handlersSetup, codec>>

\* Time passes; a timer that is due fires before the clock moves on.
Tick ==
    /\ proc = "running"
    /\ now < MaxNow * MsPerSecond
    /\ NoTimerDue
    /\ now' = now + MsPerSecond
    /\ lastOp' = Event("tick", 0)
    /\ UNCHANGED <<proc, activeFiles, instances, handlersSetup, hooks, disk, inst, snap, codec>>

Next ==
    \/ \E i \in InstIds, cfg \in Configs : Construct(i, cfg)
    \/ \E i \in InstIds, a \in SetInputs : Set(i, a.key, a.value, a.ttl)
    \/ \E i \in InstIds, key \in KeyInputs : Get(i, key)
    \/ \E i \in InstIds, key \in KeyInputs : Del(i, key)
    \/ \E i \in InstIds : Flush(i)
    \/ \E i \in InstIds, stage \in Stages, crash \in BOOLEAN : Destroy(i, stage, crash)
    \/ \E i \in InstIds, stage \in Stages, crash \in BOOLEAN :
          \E at \in inst[i].timeouts : SaveTimerFire(i, at, stage, crash)
    \/ \E i \in InstIds : \E at \in inst[i].intervals : SweepFire(i, at)
    \/ Tick

Spec == Init /\ [][Next]_vars

\* The state after new SimpleCache(0, {persistent: true, persistPath: PathAbs,
\* saveDelay: 2, checkInterval: 2}) in a fresh process with no snapshot on disk.
InitLive ==
    /\ now = 0
    /\ proc = "running"
    /\ activeFiles = [p \in Paths |-> IF p = PathAbs THEN 1 ELSE NoInst]
    /\ instances = {1}
    /\ handlersSetup = TRUE
    /\ hooks = SetupGracefulShutdown(FALSE, NoHooks)
    /\ disk = [dir |-> FALSE, files |-> [f \in Files |-> Absent], faults |-> 0]
    /\ inst = [i \in InstIds |->
                 IF i = 1 THEN Constructed(CfgAbs, PathAbs, disk, 0) ELSE Unborn]
    /\ snap = NoSnap
    /\ lastOp = [NoOp EXCEPT !.op = "construct", !.inst = 1, !.cfg = CfgAbs,
                             !.result = "ok"]
    /\ codec = CodecOff

SpecLive == InitLive /\ [][Next]_vars

-----------------------------------------------------------------------------
(* The codec on its own: entries in, buffer, entries out *)

\* entries in one encoded list
MaxEntries == 2

CodecExpiries == {0, 1000, 70000}
CodecValues == {ValStr, ValObj, ValNum}
CodecEntries == [key : Keys, value : CodecValues, expiryTime : CodecExpiries]

SeqsUpTo(S, n) == UNION {[1..k -> S] : k \in 0..n}

InitCodec ==
    /\ now = 0
    /\ proc = "running"
    /\ activeFiles = [p \in Paths |-> NoInst]
    /\ instances = {}
    /\ handlersSetup = FALSE
    /\ hooks = NoHooks
    /\ disk = [dir |-> FALSE, files |-> [f \in Files |-> Absent], faults |-> 0]
    /\ inst = [i \in InstIds |-> Unborn]
    /\ snap = NoSnap
    /\ lastOp = NoOp
    /\ \E es \in SeqsUpTo(CodecEntries, MaxEntries) :
          codec = [CodecOff EXCEPT !.phase = "input", !.entries = es]

Encode ==
    /\ codec.phase = "input"
    /\ LET ser == SerializeBinary(codec.entries) IN
         codec' = [codec EXCEPT !.phase = "encoded", !.ok = ser.ok, !.bytes = ser.bytes]
    /\ UNCHANGED <<now, proc, activeFiles, instances, handlersSetup, hooks, disk, inst, snap,
                   lastOp>>

Decode ==
    /\ codec.phase = "encoded"
    /\ codec.ok
    /\ LET dec == DeserializeBinary(codec.bytes) IN
         codec' = [codec EXCEPT !.phase = "decoded", !.outOk = dec.ok,
                                !.out = dec.entries, !.err = dec.err]
    /\ UNCHANGED <<now, proc, activeFiles, instances, handlersSetup, hooks, disk, inst, snap,
                   lastOp>>

NextCodec == Encode \/ Decode

SpecCodec == InitCodec /\ [][NextCodec]_vars

-----------------------------------------------------------------------------
(* The decoder on buffers the program did not write *)

\* The first three bytes of a buffer: "SDB", "XDB", and "SDB" with the high bit
\* of each byte set.
HighBitMagic == [k \in 1..3 |-> Magic[k] + 128]
DecodeMagics == {Magic, <<88, 68, 66>>, HighBitMagic}

\* The byte at offset 3.
DecodeVersions == {FormatVersion, FormatVersion + 1}

DecodeEntrySets == [key : Keys, value : CodecValues, expiryTime : {0, 1000}]

\* The encoding of es with the given magic and version byte, cut to len bytes.
ForeignBuffer(es, magic, version, len) ==
    LET full == SerializeBinary(es).bytes
    IN  SubSeq(magic \o <<version>> \o SubSeq(full, 5, Len(full)), 1, len)

InitDecode ==
    /\ now = 0
    /\ proc = "running"
    /\ activeFiles = [p \in Paths |-> NoInst]
    /\ instances = {}
    /\ handlersSetup = FALSE
    /\ hooks = NoHooks
    /\ disk = [dir |-> FALSE, files |-> [f \in Files |-> Absent], faults |-> 0]
    /\ inst = [i \in InstIds |-> Unborn]
    /\ snap = NoSnap
    /\ lastOp = NoOp
    /\ \E es \in SeqsUpTo(DecodeEntrySets, MaxEntries) :
       \E magic \in DecodeMagics, version \in DecodeVersions :
       \E len \in 0..Len(SerializeBinary(es).bytes) :
          codec = [CodecOff EXCEPT !.phase = "encoded", !.entries = es, !.ok = TRUE,
                                   !.bytes = ForeignBuffer(es, magic, version, len)]

NextDecode == Decode

SpecDecode == InitDecode /\ [][NextDecode]_vars

-----------------------------------------------------------------------------
(* set, get and del on one instance, over every combination of arguments *)

TtlInputs == {NoTtl, Ttl(0), Ttl(0 - 1), Ttl(1), Ttl(2)}
SetInputsWide == [key : KeyInputs, value : Values, ttl : TtlInputs]

\* The state after new SimpleCache(1, {checkInterval: 2}), or after the
\* construction of InitLive.
InitData ==
    /\ now = 0
    /\ proc = "running"
    /\ disk = [dir |-> FALSE, files |-> [f \in Files |-> Absent], faults |-> 0]
    /\ snap = NoSnap
    /\ codec = CodecOff
    /\ \E cfg \in {CfgMem, CfgAbs} :
          /\ activeFiles = [p \in Paths |-> IF cfg.persistent /\ p = ConfiguredPath(cfg)
                                            THEN 1 ELSE NoInst]
          /\ instances = IF cfg.persistent THEN {1} ELSE {}
          /\ handlersSetup = cfg.persistent
          /\ hooks = IF cfg.persistent THEN SetupGracefulShutdown(FALSE, NoHooks)
                     ELSE NoHooks
          /\ inst = [i \in InstIds |->
                       IF i = 1 THEN Constructed(cfg, ConfiguredPath(cfg), disk, 0)
                       ELSE Unborn]
          /\ lastOp = [NoOp EXCEPT !.op = "construct", !.inst = 1, !.cfg = cfg,
                                   !.result = "ok"]

NextData ==
    \/ \E i \in InstIds, a \in SetInputsWide : Set(i, a.key, a.value, a.ttl)
    \/ \E i \in InstIds, key \in KeyInputs : Get(i, key)
    \/ \E i \in InstIds, key \in KeyInputs : Del(i, key)
    \/ \E i \in InstIds : Flush(i)
    \/ \E i \in InstIds : \E at \in inst[i].timeouts : SaveTimerFire(i, at, "done", FALSE)
    \/ \E i \in InstIds : \E at \in inst[i].intervals : SweepFire(i, at)
    \/ Tick

SpecData == InitData /\ [][NextData]_vars

-----------------------------------------------------------------------------
(* Saves of a store that holds a value JSON.stringify gives no text for      *)

\* set(key, undefined)
ValUndefined == [t |-> "undefined"]

UnencodableSets == {[key |-> KeyStrOne, value |-> ValStr,       ttl |-> NoTtl],
                    [key |-> KeyStrE,   value |-> ValUndefined, ttl |-> NoTtl],
                    [key |-> KeyStrE,   value |-> ValUndefined, ttl |-> Ttl(1)],
                    [key |-> KeyStrE,   value |-> ValObj,       ttl |-> Ttl(2)]}

NextUnencodable ==
    \/ \E i \in InstIds : Construct(i, CfgAbs)
    \/ \E i \in InstIds, a \in UnencodableSets : Set(i, a.key, a.value, a.ttl)
    \/ \E i \in InstIds : Del(i, KeyStrE)
    \/ \E i \in InstIds : Destroy(i, "done", FALSE)
    \/ \E i \in InstIds : \E at \in inst[i].timeouts : SaveTimerFire(i, at, "done", FALSE)
    \/ \E i \in InstIds : \E at \in inst[i].intervals : SweepFire(i, at)
    \/ Tick

SpecUnencodable == InitLive /\ [][NextUnencodable]_vars

-----------------------------------------------------------------------------
(* wrap on one instance, with the calls that change what wrap finds          *)

ValNull == [t |-> "null"]

\* What fn's promise is fulfilled with.
WrapResults == {ValStr, ValNull}

WrapTtls == {NoTtl, Ttl(2)}

NextWrap ==
    \/ \E i \in InstIds, key \in {KeyStrOne, KeyNumOne}, ttl \in WrapTtls :
          WrapCall(i, key, ttl)
    \/ \E i \in InstIds, n \in 1..MaxOps, result \in WrapResults : WrapResume(i, n, result)
    \/ \E i \in InstIds, n \in 1..MaxOps : WrapReject(i, n)
    \/ \E i \in InstIds : Set(i, KeyStrOne, ValObj, Ttl(1))
    \/ \E i \in InstIds : Del(i, KeyNumOne)
    \/ \E i \in InstIds : \E at \in inst[i].timeouts : SaveTimerFire(i, at, "done", FALSE)
    \/ \E i \in InstIds : \E at \in inst[i].intervals : SweepFire(i, at)
    \/ Tick

SpecWrap == InitData /\ [][NextWrap]_vars

-----------------------------------------------------------------------------
(* The process's events: the signals and beforeExit, with the calls and the  *)
(* timers that bring the instances into the states the handlers meet.       *)

ShutdownConfigs == {CfgAbs, CfgRel, CfgMem}

ShutdownSets == {[key |-> KeyNumOne, value |-> ValStr, ttl |-> NoTtl],
                 [key |-> KeyStrE,   value |-> ValObj, ttl |-> Ttl(1)]}

\* A fresh process, or one in which the construction of InitLive has been made.
InitShutdown == Init \/ InitLive

NextShutdown ==
    \/ \E i \in InstIds, cfg \in ShutdownConfigs : Construct(i, cfg)
    \/ \E i \in InstIds, a \in ShutdownSets : Set(i, a.key, a.value, a.ttl)
    \/ \E i \in InstIds, key \in {KeyStrOne, KeyStrE} : Del(i, key)
    \/ \E i \in InstIds : Flush(i)
    \/ \E i \in InstIds, stage \in Stages : Destroy(i, stage, FALSE)
    \/ \E i \in InstIds, stage \in Stages :
          \E at \in inst[i].timeouts : SaveTimerFire(i, at, stage, FALSE)
    \/ \E i \in InstIds : \E at \in inst[i].intervals : SweepFire(i, at)
    \/ \E sig \in {"SIGINT", "SIGTERM"}, f \in InstIds \cup {NoInst}, stage \in Stages,
          crash \in BOOLEAN : Signal(sig, f, stage, crash)
    \/ \E goesOn \in BOOLEAN, f \in InstIds \cup {NoInst}, stage \in Stages,
          crash \in BOOLEAN : BeforeExit(goesOn, f, stage, crash)
    \/ Tick

SpecShutdown == InitShutdown /\ [][NextShutdown]_vars

-----------------------------------------------------------------------------
(* A process that starts with a file it did not write at the snapshot's path *)

\* The entries of the snapshot the foreign files are made from.
SeedEntries == <<[key |-> KeyOne, value |-> ValStr, expiryTime |-> 0],
                 [key |-> KeyE, value |-> ValNum, expiryTime |-> 0]>>

SeedGood == SerializeBinary(SeedEntries).bytes

\* Replace the byte at offset o (from 0) of buf by b.
Poke(buf, o, b) == [buf EXCEPT ![o + 1] = b]

\* Another magic: "XDB".
SeedBadMagic == Poke(SeedGood, 0, 88)

\* A version the decoder does not know.
SeedBadVersion == Poke(SeedGood, 3, FormatVersion + 1)

\* Cut inside the header, inside the second entry's expiry field, and one byte
\* before the end, which is inside the second entry's value.
SeedCutHeader == SubSeq(SeedGood, 1, 6)
SeedCutExpiry == SubSeq(SeedGood, 1, Len(SeedGood) - Len(Stringify(ValNum)) - 8)
SeedCutValue == SubSeq(SeedGood, 1, Len(SeedGood) - 1)

\* The second entry's value is not JSON: its first byte is "x".
SeedBadJson == Poke(SeedGood, Len(SeedGood) - Len(Stringify(ValNum)), 120)

\* A well-formed snapshot that lists one key twice, first with an expiry.
SeedDupKeys ==
    SerializeBinary(<<[key |-> KeyOne, value |-> ValStr, expiryTime |-> 2 * MsPerSecond],
                      [key |-> KeyOne, value |-> ValNum, expiryTime |-> 0]>>).bytes

CorruptSeeds == {SeedBadMagic, SeedBadVersion, SeedCutHeader, SeedCutExpiry,
                 SeedCutValue, SeedBadJson}

\* A fresh process; the directory exists and holds a snapshot, whole or damaged.
InitSeeded ==
    /\ now = 0
    /\ proc = "running"
    /\ activeFiles = [p \in Paths |-> NoInst]
    /\ instances = {}
    /\ handlersSetup = FALSE
    /\ hooks = NoHooks
    /\ \E bytes \in CorruptSeeds \cup {SeedGood, SeedDupKeys} :
          disk = [dir |-> TRUE,
                  files |-> [f \in Files |-> IF f = FileTarget THEN FileOf(bytes)
                                             ELSE Absent],
                  faults |-> 0]
    /\ inst = [i \in InstIds |-> Unborn]
    /\ snap = NoSnap
    /\ lastOp = NoOp
    /\ codec = CodecOff

NextSeeded ==
    \/ \E i \in InstIds, cfg \in {CfgAbs, CfgMem} : Construct(i, cfg)
    \/ \E i \in InstIds, a \in ShutdownSets : Set(i, a.key, a.value, a.ttl)
    \/ \E i \in InstIds, key \in {KeyStrOne, KeyStrE} : Get(i, key)
    \/ \E i \in InstIds : Del(i, KeyStrE)
    \/ \E i \in InstIds : Flush(i)
    \/ \E i \in InstIds : Destroy(i, "done", FALSE)
    \/ \E i \in InstIds : \E at \in inst[i].timeouts : SaveTimerFire(i, at, "done", FALSE)
    \/ \E i \in InstIds : \E at \in inst[i].intervals : SweepFire(i, at)
    \/ Tick

SpecSeeded == InitSeeded /\ [][NextSeeded]_vars

-----------------------------------------------------------------------------
(* Properties.  A step is recognised by the record it leaves in lastOp; the  *)
(* unprimed variables are the state the call was made in.                   *)

IsCall(op) == lastOp'.op = op /\ lastOp'.seq = lastOp.seq + 1

Live(i) == inst[i].status = "live"

\* The store's entries with the expiry each has, 0 for none, in the store's order.
StoreTriples(c) ==
    [n \in 1..Len(c.store) |->
        [key |-> c.store[n].key, value |-> c.store[n].value,
         expiryTime |-> IF c.store[n].key \in DOMAIN c.expiries
                        THEN c.expiries[c.store[n].key] ELSE 0]]

\* An entry is permanent, or its expiry instant is after t.
ValidAt(e, t) == e.expiryTime = 0 \/ e.expiryTime > t

ValidEntries(entries, t) == SelectSeq(entries, LAMBDA e : ValidAt(e, t))

KeyValues(entries) ==
    [n \in 1..Len(entries) |-> [key |-> entries[n].key, value |-> entries[n].value]]

TargetFile(d) == d.files[FileTarget]

\* C1: constructing a persistent instance on a path whose registry entry holds a
\* live instance fails with the conflict error; the registry is unchanged, so the
\* first instance stays the owner, and the first instance itself is untouched.
C1_Step ==
    LET cfg  == lastOp'.cfg
        path == ConfiguredPath(cfg)
    IN  (/\ IsCall("construct")
         /\ cfg.persistent
         /\ path # NoPath
         /\ activeFiles[path] # NoInst
         /\ Live(activeFiles[path]))
        => /\ lastOp'.result = "ConflictError"
           /\ inst'[lastOp'.inst].status = "failed"
           /\ activeFiles' = activeFiles
           /\ instances' = instances
           /\ inst'[activeFiles[path]] = inst[activeFiles[path]]

C1_ConflictKeepsOwner == [][C1_Step]_vars

\* C1's case: the last call was refused and the path's owner is a live instance.
C1_Witness ==
    /\ lastOp.op = "construct"
    /\ lastOp.result = "ConflictError"
    /\ activeFiles[ConfiguredPath(lastOp.cfg)] # NoInst
    /\ activeFiles[ConfiguredPath(lastOp.cfg)] # lastOp.inst
    /\ Live(activeFiles[ConfiguredPath(lastOp.cfg)])

\* C2: when an instance of a path has been destroyed and no instance of the path
\* is live, constructing on that path succeeds; and if the file's last snapshot
\* was written by that destroyed instance, the new store is exactly that
\* snapshot's entries that are not expired at load time, with their values.
C2_Step ==
    LET cfg  == lastOp'.cfg
        path == ConfiguredPath(cfg)
        j    == lastOp'.inst
    IN  (/\ IsCall("construct")
         /\ cfg.persistent
         /\ path # NoPath
         /\ \E i \in InstIds : inst[i].status = "destroyed" /\ inst[i].persistPath = path
         /\ \A k \in InstIds : Live(k) => inst[k].persistPath # path)
        => /\ lastOp'.result = "ok"
           /\ inst'[j].status = "live"
           /\ activeFiles'[path] = j
           /\ (snap.has /\ inst[snap.by].status = "destroyed"
                        /\ inst[snap.by].persistPath = path)
              => inst'[j].store = KeyValues(ValidEntries(snap.entries, now))

C2_ReopenAfterDestroy == [][C2_Step]_vars

\* C2's case: the last call constructed an instance from a destroyed instance's
\* snapshot, of which one entry was loaded and one had expired.
C2_Witness ==
    /\ lastOp.op = "construct"
    /\ lastOp.result = "ok"
    /\ snap.has
    /\ snap.by # lastOp.inst
    /\ inst[snap.by].status = "destroyed"
    /\ inst[snap.by].persistPath = inst[lastOp.inst].persistPath
    /\ inst[lastOp.inst].store # <<>>
    /\ Len(inst[lastOp.inst].store) < Len(snap.entries)

\* C3: no two live persistent instances have the same path.
C3_OneLivePerPath ==
    \A i, j \in InstIds :
        (i # j /\ Live(i) /\ Live(j) /\ inst[i].persistent /\ inst[j].persistent)
        => inst[i].persistPath # inst[j].persistPath

\* C4: a live persistent instance has at most one save timer, due saveDelay
\* seconds after its last mutation; each mutation re-arms it; and when it fires it
\* is the first and only write since the burst began.
C4_Pending ==
    \A i \in InstIds :
        (Live(i) /\ inst[i].persistent)
        => /\ Cardinality(inst[i].timeouts) <= 1
           /\ \A at \in inst[i].timeouts :
                 /\ at = inst[i].lastMutAt + inst[i].saveDelay * MsPerSecond
                 /\ at >= now
                 /\ inst[i].burstSaves = 0

C4_Step ==
    LET i == lastOp'.inst IN
    /\ (/\ IsCall("set") \/ (IsCall("del") /\ lastOp'.result = "1")
        /\ Live(i)
        /\ inst[i].persistent)
       => inst'[i].timeouts = {now + inst[i].saveDelay * MsPerSecond}
    /\ (lastOp'.op = "saveTimer" /\ Live(i))
       => /\ now = inst[i].lastMutAt + inst[i].saveDelay * MsPerSecond
          /\ lastOp'.burstSaves = 1
          /\ ~lastOp'.crash => inst'[i].timeouts = {}

C4_Debounce == []C4_Pending /\ [][C4_Step]_vars

\* C4's case: the timer fired and wrote after a burst of mutations made at
\* different times.
C4_Witness ==
    /\ lastOp.op = "saveTimer"
    /\ lastOp.stage = "done"
    /\ Live(lastOp.inst)
    /\ lastOp.burstFirst < lastOp.burstLast
    /\ now = lastOp.burstLast + inst[lastOp.inst].saveDelay * MsPerSecond

\* C5: the file a completed write leaves decodes to the store's entries that are
\* permanent or expire after the time of the write, in the store's order, and to
\* nothing else.
C5_Step ==
    (lastOp'.saved /\ lastOp'.stage = "done")
    => LET c   == inst[lastOp'.inst]
           dec == DeserializeBinary(TargetFile(disk').bytes)
       IN  /\ TargetFile(disk').exists
           /\ dec.ok
           /\ dec.entries = ValidEntries(StoreTriples(c), now)
           /\ \A n \in 1..Len(dec.entries) :
                 ~(dec.entries[n].expiryTime # 0 /\ dec.entries[n].expiryTime <= now)

C5_SnapshotOmitsExpired == [][C5_Step]_vars

\* C5's case: the timer wrote a snapshot that has an entry and leaves out an
\* expired entry that is still in the store.
C5_Witness ==
    /\ lastOp.op = "saveTimer"
    /\ lastOp.saved
    /\ lastOp.stage = "done"
    /\ snap.by = lastOp.inst
    /\ snap.entries # <<>>
    /\ Len(snap.entries) < Len(inst[lastOp.inst].store)

\* C6: after a construction that loads a snapshot, an entry whose expiry is
\* non-zero and at or before the load time is not in the store; every other entry
\* is there with its value, and with its expiry in expiries when that is non-zero.
C6_Step ==
    LET j   == lastOp'.inst
        dec == DeserializeBinary(TargetFile(disk).bytes)
        es  == dec.entries
    IN  (/\ IsCall("construct")
         /\ lastOp'.result = "ok"
         /\ lastOp'.cfg.persistent
         /\ TargetFile(disk).exists
         /\ dec.ok)
        => \A n \in 1..Len(es) :
              IF es[n].expiryTime # 0 /\ es[n].expiryTime <= now
              THEN \A m \in 1..Len(inst'[j].store) : inst'[j].store[m].key # es[n].key
              ELSE /\ \E m \in 1..Len(inst'[j].store) :
                         inst'[j].store[m] = [key |-> es[n].key, value |-> es[n].value]
                   /\ es[n].expiryTime # 0
                      => /\ es[n].key \in DOMAIN inst'[j].expiries
                         /\ inst'[j].expiries[es[n].key] = es[n].expiryTime

C6_LoadDropsExpired == [][C6_Step]_vars

\* C6's case: the last call loaded a snapshot with an entry that had expired, now
\* absent, and an entry still to expire, now in expiries.
C6_Witness ==
    /\ lastOp.op = "construct"
    /\ lastOp.result = "ok"
    /\ snap.has
    /\ snap.by # lastOp.inst
    /\ \E n \in 1..Len(snap.entries) :
          /\ snap.entries[n].expiryTime # 0
          /\ snap.entries[n].expiryTime <= now
          /\ snap.entries[n].key \notin StoreKeys(inst[lastOp.inst].store)
    /\ \E n \in 1..Len(snap.entries) :
          /\ snap.entries[n].expiryTime > now
          /\ snap.entries[n].key \in DOMAIN inst[lastOp.inst].expiries

\* C7: every list of entries is encoded, and decoding the buffer gives the same
\* list of (key, value, expiry) in the same order.
C7_RoundTrip ==
    /\ codec.phase = "encoded" => codec.ok
    /\ codec.phase = "decoded" => codec.outOk /\ codec.out = codec.entries

\* C7's case: a decoded list of a permanent entry and an expiring entry with a
\* nested value, under a key of more than one byte.
C7_Witness ==
    /\ codec.phase = "decoded"
    /\ Len(codec.entries) = 2
    /\ codec.entries[1].expiryTime = 0
    /\ codec.entries[2].expiryTime > 0
    /\ codec.entries[2].value = ValObj
    /\ codec.entries[2].key = KeyE
    /\ codec.out = codec.entries

\* C8: when destroy() of a live persistent instance returns, the file decodes to
\* the entries that were in the store and not expired when it was called, whether
\* or not a timer was pending.  Stated for the runs that favour it most: the
\* instance is the only one there has been, no file system call has failed, and a
\* missing file is read as the empty snapshot.
C8_Step ==
    LET i == lastOp'.inst
        expected == ValidEntries(StoreTriples(inst[i]), now)
        dec == DeserializeBinary(TargetFile(disk').bytes)
    IN  (/\ IsCall("destroy")
         /\ Live(i)
         /\ inst[i].persistent
         /\ \A k \in InstIds : k # i => inst[k].status \in {"unborn", "failed"}
         /\ disk.faults = 0
         /\ ~lastOp'.crash
         /\ lastOp'.stage \in {"", "done"})
        => IF TargetFile(disk').exists
           THEN dec.ok /\ dec.entries = expected
           ELSE expected = <<>>

C8_DestroySavesStore == [][C8_Step]_vars

\* C9: the target file is absent or holds the whole buffer of the last completed
\* write; it changes only in the step that completes a write, and then to the
\* whole new buffer.
C9_Complete ==
    TargetFile(disk).exists
    => /\ snap.has
       /\ TargetFile(disk).bytes = SerializeBinary(snap.entries).bytes
       /\ DeserializeBinary(TargetFile(disk).bytes).ok
       /\ DeserializeBinary(TargetFile(disk).bytes).entries = snap.entries

C9_Step ==
    TargetFile(disk') # TargetFile(disk)
    => /\ lastOp'.saved
       /\ lastOp'.stage = "done"
       /\ TargetFile(disk') =
            FileOf(SerializeBinary(SaveEntries(inst[lastOp'.inst], now)).bytes)

C9_AtomicReplace == []C9_Complete /\ [][C9_Step]_vars

\* C9's case: the process died between the temp write and the rename; the
\* previous snapshot is at the target and the new one, different, at the temp path.
C9_Witness ==
    /\ proc = "crashed"
    /\ lastOp.saved
    /\ lastOp.stage = "written"
    /\ TargetFile(disk).exists
    /\ disk.files[FileTemp].exists
    /\ disk.files[FileTemp].bytes # TargetFile(disk).bytes
    /\ DeserializeBinary(TargetFile(disk).bytes).ok

\* C10: constructing with persistent set and neither name nor persistPath fails
\* with the configuration error; the registry, the shutdown set, the hooks and the
\* file system are unchanged, and the object has no timer.
C10_Step ==
    LET cfg == lastOp'.cfg
        j   == lastOp'.inst
    IN  (/\ IsCall("construct")
         /\ cfg.persistent
         /\ cfg.persistPath = ""
         /\ cfg.name = "")
        => /\ lastOp'.result = "ConfigurationError"
           /\ inst'[j].status = "failed"
           /\ inst'[j].timeouts = {} /\ inst'[j].intervals = {}
           /\ activeFiles' = activeFiles
           /\ instances' = instances
           /\ handlersSetup' = handlersSetup
           /\ hooks' = hooks
           /\ disk' = disk

C10_ConfigurationError == [][C10_Step]_vars

\* C10's case: the last call was refused for its configuration while another
\* instance was registered.
C10_Witness ==
    /\ lastOp.op = "construct"
    /\ lastOp.result = "ConfigurationError"
    /\ lastOp.cfg.persistent
    /\ instances # {}
    /\ \E p \in Paths : activeFiles[p] # NoInst

\* The key a caller's key stands for: the number 1 is the string "1".
CanonKey(key) == IF key = KeyNumOne THEN KeyOne ELSE key.s

HasEntry(c, k, v) == \E n \in 1..Len(c.store) : c.store[n] = [key |-> k, value |-> v]

HasKey(c, k) == \E n \in 1..Len(c.store) : c.store[n].key = k

HasExpiry(c, k) == k \in DOMAIN c.expiries

\* Every key but k has the entry and the expiry in d that it has in c.
SameButKey(c, d, k) ==
    /\ SelectSeq(d.store, LAMBDA e : e.key # k) = SelectSeq(c.store, LAMBDA e : e.key # k)
    /\ \A x \in (DOMAIN c.expiries \cup DOMAIN d.expiries) \ {k} :
          HasExpiry(c, x) /\ HasExpiry(d, x) /\ c.expiries[x] = d.expiries[x]

\* C13: set(key, value, ttl) returns "OK" and leaves the value under the key; with
\* the effective TTL (ttl if a number was given, else defaultTtl) above 0 the key's
\* expiry is now + TTL, otherwise the key has no expiry; no other key changes.
C13_Step ==
    LET i   == lastOp'.inst
        a   == lastOp'.arg
        k   == CanonKey(a.key)
        ttl == IF a.ttl.given THEN a.ttl.v ELSE inst[i].defaultTtl
    IN  IsCall("set")
        => /\ lastOp'.result = "OK"
           /\ HasEntry(inst'[i], k, a.value)
           /\ Cardinality({n \in 1..Len(inst'[i].store) : inst'[i].store[n].key = k}) = 1
           /\ IF ttl > 0
              THEN HasExpiry(inst'[i], k)
                   /\ inst'[i].expiries[k] = now + ttl * MsPerSecond
              ELSE ~HasExpiry(inst'[i], k)
           /\ SameButKey(inst[i], inst'[i], k)

C13_SetContract == [][C13_Step]_vars

\* C13's case: a set with a number not above 0 as ttl, on an instance whose
\* defaultTtl would have given an expiry, left the key permanent.
C13_Witness ==
    /\ lastOp.op = "set"
    /\ lastOp.arg.ttl.given
    /\ lastOp.arg.ttl.v < 0
    /\ inst[lastOp.inst].defaultTtl > 0
    /\ HasEntry(inst[lastOp.inst], CanonKey(lastOp.arg.key), lastOp.arg.value)
    /\ ~HasExpiry(inst[lastOp.inst], CanonKey(lastOp.arg.key))
    /\ inst[lastOp.inst].expiries # EmptyMap

\* C14: get(key) returns the value when the key is in the store and has no expiry
\* or an expiry after now, and leaves the instance as it is; it returns null when
\* the key is missing; and when the key's expiry is at or before now it returns
\* null and the key is gone from the store and from expiries.
C14_Step ==
    LET i == lastOp'.inst
        k == CanonKey(lastOp'.arg.key)
        c == inst[i]
    IN  IsCall("get")
        => IF ~HasKey(c, k)
           THEN lastOp'.ret = [t |-> "null"] /\ inst'[i] = c
           ELSE IF HasExpiry(c, k) /\ c.expiries[k] <= now
           THEN /\ lastOp'.ret = [t |-> "null"]
                /\ ~HasKey(inst'[i], k)
                /\ ~HasExpiry(inst'[i], k)
                /\ SameButKey(c, inst'[i], k)
           ELSE HasEntry(c, k, lastOp'.ret) /\ inst'[i] = c

C14_GetContract == [][C14_Step]_vars

\* C14's case: a get found the key expired and removed it, while another entry
\* that has expired, not read, is still in the store: no sweep has run.
C14_Witness ==
    /\ lastOp.op = "get"
    /\ lastOp.result = "expired"
    /\ lastOp.ret = [t |-> "null"]
    /\ ~HasKey(inst[lastOp.inst], CanonKey(lastOp.arg.key))
    /\ \E x \in DOMAIN inst[lastOp.inst].expiries : inst[lastOp.inst].expiries[x] <= now

\* C15: del(key) leaves the key in neither mapping and no other key changed; it
\* returns 1 if the key was in the store and 0 if it was not, which is the case of
\* a second del.
C15_Step ==
    LET i == lastOp'.inst
        k == CanonKey(lastOp'.arg.key)
    IN  IsCall("del")
        => /\ ~HasKey(inst'[i], k)
           /\ ~HasExpiry(inst'[i], k)
           /\ SameButKey(inst[i], inst'[i], k)
           /\ lastOp'.result = IF HasKey(inst[i], k) THEN "1" ELSE "0"
           /\ (lastOp.op = "del" /\ lastOp.inst = i /\ lastOp.arg = lastOp'.arg)
              => lastOp'.result = "0"

C15_DelContract == [][C15_Step]_vars

\* C15's case: a del returned 1 for a key that had an expiry, and another key is
\* still there with its expiry.
C15_Witness ==
    /\ lastOp.op = "del"
    /\ lastOp.result = "1"
    /\ ~HasKey(inst[lastOp.inst], CanonKey(lastOp.arg.key))
    /\ ~HasExpiry(inst[lastOp.inst], CanonKey(lastOp.arg.key))
    /\ inst[lastOp.inst].store # <<>>
    /\ inst[lastOp.inst].expiries # EmptyMap

\* C16: the number 1 and the string "1" are one key: after a set under either, get
\* under each of them returns the value and del under each would return 1; the
\* store's keys are strings, each held once.
C16_Keys ==
    \A i \in InstIds :
        /\ StoreKeys(inst[i].store) \subseteq Keys
        /\ Cardinality(StoreKeys(inst[i].store)) = Len(inst[i].store)

C16_Step ==
    LET i == lastOp'.inst
        a == lastOp'.arg
    IN  IsCall("set")
        => \A key \in KeyInputs :
              CanonKey(key) = CanonKey(a.key)
              => /\ GetOp(inst'[i], key, now).ret = a.value
                 /\ DelOp(inst'[i], key, now).deleted = 1

C16_NumericKeys == []C16_Keys /\ [][C16_Step]_vars

\* C16's case: a set under the number 1 replaced the value that a set under "1"
\* had left: one entry, under "1", and another key beside it.
C16_Witness ==
    /\ lastOp.op = "set"
    /\ lastOp.arg.key = KeyNumOne
    /\ HasEntry(inst[lastOp.inst], KeyOne, lastOp.arg.value)
    /\ Len(inst[lastOp.inst].store) = 2
    /\ inst[lastOp.inst].store[1].key = KeyOne

\* The live persistent instances.
LivePersistent == {i \in InstIds : Live(i) /\ inst[i].persistent}

\* The instance of S constructed last: the last one a handler's loop comes to.
LastOf(S) == CHOOSE m \in S : \A j \in S : j <= m

\* A process event was delivered and no call of its handler failed.
IsEvent(op) == IsCall(op) /\ lastOp'.inst = NoInst /\ ~lastOp'.crash

\* C17: when SIGINT or SIGTERM arrives, every live persistent instance with a
\* non-empty store writes its snapshot, with or without a pending timer, and the
\* process exits only then: after the step the file holds the snapshot of the
\* last of them.
C17_Step ==
    LET P   == {i \in LivePersistent : inst[i].store # <<>>}
        dec == DeserializeBinary(TargetFile(disk').bytes)
    IN  (IsEvent("SIGINT") \/ IsEvent("SIGTERM"))
        => /\ P \subseteq lastOp'.wrote
           /\ proc' = "exited"
           /\ P # {}
              => /\ lastOp'.result = "handled"
                 /\ TargetFile(disk').exists
                 /\ dec.ok
                 /\ dec.entries = ValidEntries(StoreTriples(inst[LastOf(P)]), now)

C17_SignalSavesAll == [][C17_Step]_vars

\* C17's case: the process exited on a signal and an instance with entries and no
\* pending timer wrote its snapshot, after another instance had written.
C17_Witness ==
    /\ proc = "exited"
    /\ lastOp.op \in {"SIGINT", "SIGTERM"}
    /\ Cardinality(lastOp.wrote) = 2
    /\ \E i \in lastOp.wrote :
          /\ inst[i].timeouts = {}
          /\ ~inst[i].saveTimeout.armed
          /\ inst[i].store # <<>>
          /\ snap.by = i

\* C18: when beforeExit is delivered to the handler, the instances that write are
\* exactly the live persistent instances with a pending timer; each has its timer
\* cleared and its store kept; every other instance is as it was; and with no
\* pending timer anywhere the disk is as it was.
C18_Step ==
    LET P == {i \in LivePersistent : inst[i].timeouts # {}} IN
    (IsEvent("beforeExit") /\ lastOp'.result = "handled")
    => /\ lastOp'.wrote = P
       /\ \A i \in P :
             /\ inst'[i].timeouts = {}
             /\ ~inst'[i].saveTimeout.armed
             /\ inst'[i].store = inst[i].store
             /\ inst'[i].expiries = inst[i].expiries
       /\ \A i \in InstIds \ P : inst'[i] = inst[i]
       /\ P = {} => disk' = disk
       /\ P # {} => /\ snap'.by = LastOf(P)
                    /\ TargetFile(disk') =
                         FileOf(SerializeBinary(
                                  ValidEntries(StoreTriples(inst[LastOf(P)]), now)).bytes)

C18_BeforeExitFlushesPending == [][C18_Step]_vars

\* C18's case: beforeExit flushed an instance with a pending timer and left alone
\* a live persistent instance that has entries and no timer; the file is the
\* flushed instance's.
C18_Witness ==
    /\ lastOp.op = "beforeExit"
    /\ lastOp.result = "handled"
    /\ lastOp.wrote # {}
    /\ \E i \in LivePersistent \ lastOp.wrote : inst[i].store # <<>>
    /\ snap.by \in lastOp.wrote
    /\ \A i \in InstIds : inst[i].timeouts = {}

\* C19: when the process exits, on a signal or after a beforeExit, first or later,
\* a live persistent instance that had a pending timer has its mutations in the
\* snapshot.  Stated for the runs that favour it most: the instance is the only
\* live persistent one, no write fails, and a missing file is read as the empty
\* snapshot.
C19_Step ==
    LET dec == DeserializeBinary(TargetFile(disk').bytes) IN
    (/\ IsEvent("SIGINT") \/ IsEvent("SIGTERM") \/ IsEvent("beforeExit")
     /\ proc' = "exited")
    => \A i \in LivePersistent :
          (LivePersistent = {i} /\ inst[i].timeouts # {})
          => IF TargetFile(disk').exists
             THEN dec.ok /\ dec.entries = ValidEntries(StoreTriples(inst[i]), now)
             ELSE ValidEntries(StoreTriples(inst[i]), now) = <<>>

C19_PendingWrittenAtExit == [][C19_Step]_vars

\* C20: each of SIGINT, SIGTERM and beforeExit has had the cache's handler
\* installed once if a persistent instance has been constructed and never
\* otherwise; at most one listener is in place, and while the process runs the
\* signals' listeners are in place.
C20_HooksOnce ==
    \A e \in HookEvents :
        /\ hooks[e].installed =
             IF \E i \in InstIds : Reachable(i) /\ inst[i].persistent THEN 1 ELSE 0
        /\ hooks[e].listening <= hooks[e].installed
        /\ (proc = "running" /\ e # "beforeExit") => hooks[e].listening = hooks[e].installed

\* C20's case: a persistent instance was constructed after two others, one of
\* them destroyed, and each event has its one handler.
C20_Witness ==
    /\ lastOp.op = "construct"
    /\ lastOp.result = "ok"
    /\ lastOp.cfg.persistent
    /\ Cardinality({i \in InstIds : Reachable(i) /\ inst[i].persistent}) = 3
    /\ \E i \in InstIds : inst[i].status = "destroyed"
    /\ \A e \in HookEvents : hooks[e].installed = 1 /\ hooks[e].listening = 1


\* C12: a save whose file system call fails (mkdir, opening or writing the temp
\* file, rename) raises nothing: the timer callback, destroy() or the shutdown
\* handler goes on and ends as it does after a save that worked.  The target file
\* is as it was unless another instance's save of the same handler run replaced
\* it; and, destroy() apart, which empties the store itself, the instance's store
\* and expiries are as they were, so every get returns what it returned.
C12_Step ==
    LET i == lastOp'.inst IN
    (/\ lastOp'.op \in {"saveTimer", "destroy"} \cup HookEvents
     /\ lastOp'.stage \notin {"", "done"}
     /\ ~lastOp'.crash)
    => /\ proc' # "crashed"
       /\ lastOp'.wrote = {} => TargetFile(disk') = TargetFile(disk)
       /\ lastOp'.op = "saveTimer"
          => /\ proc' = "running"
             /\ inst'[i].timeouts = inst[i].timeouts \ {now}
       /\ lastOp'.op = "destroy"
          => /\ proc' = "running"
             /\ inst'[i].status = "destroyed"
             /\ inst'[i].timeouts = {}
             /\ i \notin instances'
       /\ lastOp'.op \in {"SIGINT", "SIGTERM"}
          => /\ proc' = "exited"
             /\ lastOp'.wrote = {j \in LivePersistent : inst[j].store # <<>>} \ {i}
       /\ lastOp'.op = "beforeExit"
          => /\ lastOp'.wrote = {j \in LivePersistent : inst[j].timeouts # {}} \ {i}
             /\ inst'[i].timeouts = {}
       /\ lastOp'.op # "destroy"
          => /\ inst'[i].store = inst[i].store
             /\ inst'[i].expiries = inst[i].expiries
             /\ \A key \in KeyInputs :
                   GetOp(inst'[i], key, now).ret = GetOp(inst[i], key, now).ret

C12_FailedSaveHarmless == [][C12_Step]_vars

\* C12's case: the timer's save failed at the rename; the process runs on, the
\* target file is the earlier snapshot, which lacks an entry the store has, and
\* the new buffer is still at the temp path.
C12_Witness ==
    /\ lastOp.op = "saveTimer"
    /\ lastOp.stage = "written"
    /\ ~lastOp.crash
    /\ proc = "running"
    /\ TargetFile(disk).exists
    /\ snap.has
    /\ Len(snap.entries) < Len(inst[lastOp.inst].store)
    /\ TargetFile(disk).bytes = SerializeBinary(snap.entries).bytes
    /\ disk.files[FileTemp].exists


\* C11: constructing a persistent instance on a free path whose file is missing
\* or damaged (another magic, an unknown version, cut short, or with a value that
\* is not JSON) succeeds: the instance is live and registered, and its store and
\* expiries are empty.
C11_Step ==
    LET cfg  == lastOp'.cfg
        path == ConfiguredPath(cfg)
        j    == lastOp'.inst
    IN  (/\ IsCall("construct")
         /\ cfg.persistent
         /\ path # NoPath
         /\ activeFiles[path] = NoInst
         /\ ~TargetFile(disk).exists \/ TargetFile(disk).bytes \in CorruptSeeds)
        => /\ lastOp'.result = "ok"
           /\ inst'[j].status = "live"
           /\ activeFiles'[path] = j
           /\ j \in instances'
           /\ inst'[j].store = <<>>
           /\ inst'[j].expiries = EmptyMap

C11_BadSnapshotStartsCold == [][C11_Step]_vars


\* C21: flush() on a persistent instance leaves store and expiries empty and no
\* save timer pending, and writes nothing: the disk is as it was.  A timer comes
\* into being only in a set or a del that removed a key, so no write for the
\* mutations made before the flush() can happen after it.
C21_Step ==
    LET i == lastOp'.inst IN
    /\ (IsCall("flush") /\ inst[i].persistent)
       => /\ inst'[i].store = <<>>
          /\ inst'[i].expiries = EmptyMap
          /\ inst'[i].timeouts = {}
          /\ ~inst'[i].saveTimeout.armed
          /\ disk' = disk
          /\ snap' = snap
    /\ \A j \in InstIds :
          ~(inst'[j].timeouts \subseteq inst[j].timeouts)
          => /\ lastOp'.inst = j
             /\ IsCall("set") \/ (IsCall("del") /\ lastOp'.result = "1")

C21_FlushCancelsSave == [][C21_Step]_vars

\* C21's case: flush() cancelled a pending save; the store is empty while the
\* file still holds the entries of an earlier write.
C21_Witness ==
    /\ lastOp.op = "flush"
    /\ lastOp.result = "cancelled"
    /\ inst[lastOp.inst].persistent
    /\ Live(lastOp.inst)
    /\ inst[lastOp.inst].timeouts = {}
    /\ inst[lastOp.inst].store = <<>>
    /\ TargetFile(disk).exists
    /\ snap.entries # <<>>


\* C22: what a completed write puts in the file is, for every key, the value of
\* the last set of that key, and nothing for a key removed since.  In steps: the
\* store gets a value under a key only in a set of that key with that value (or
\* in the load of a construction); after a set the key has the set's value, once;
\* after a del or a flush() the key is gone; and every entry of the file a write
\* leaves is an entry the store held when the write was made, each key once.
C22_Step ==
    LET i   == lastOp'.inst
        a   == lastOp'.arg
        dec == DeserializeBinary(TargetFile(disk').bytes)
    IN  /\ \A j \in InstIds : \A n \in 1..Len(inst'[j].store) :
              ~HasEntry(inst[j], inst'[j].store[n].key, inst'[j].store[n].value)
              => /\ lastOp'.inst = j
                 /\ \/ lastOp'.op = "construct"
                    \/ /\ IsCall("set")
                       /\ inst'[j].store[n] = [key |-> CanonKey(a.key), value |-> a.value]
        /\ IsCall("set")
           => \A n \in 1..Len(inst'[i].store) :
                 inst'[i].store[n].key = CanonKey(a.key)
                 => inst'[i].store[n].value = a.value
        /\ IsCall("del") => ~HasKey(inst'[i], CanonKey(a.key))
        /\ IsCall("flush") => inst'[i].store = <<>>
        /\ (lastOp'.saved /\ lastOp'.stage = "done")
           => /\ dec.ok
              /\ \A n \in 1..Len(dec.entries) :
                    /\ HasEntry(inst[i], dec.entries[n].key, dec.entries[n].value)
                    /\ \A m \in 1..Len(dec.entries) :
                          dec.entries[m].key = dec.entries[n].key => m = n

C22_LastValueWritten == [][C22_Step]_vars

\* C22's case: the timer wrote after two mutations made at different times had
\* left one key in the store: the file holds that key with the value it has now.
C22_Witness ==
    /\ lastOp.op = "saveTimer"
    /\ lastOp.stage = "done"
    /\ lastOp.burstFirst < lastOp.burstLast
    /\ Len(inst[lastOp.inst].store) = 1
    /\ snap.by = lastOp.inst
    /\ KeyValues(snap.entries) = inst[lastOp.inst].store
    /\ TargetFile(disk).bytes = SerializeBinary(snap.entries).bytes


\* C23: while an instance holds an entry with an expiry its sweep is armed, due
\* within checkInterval seconds, and no sweep tick has passed since the entry's
\* expiry; a sweep tick leaves no entry whose expiry is at or before its time, in
\* either mapping, and leaves every other entry as it is.  So an entry with an
\* expiry is gone at the first sweep tick at or after the expiry, read or not.
C23_Armed ==
    \A i \in InstIds :
        inst[i].expiries # EmptyMap
        => /\ inst[i].cleanupInterval.armed
           /\ inst[i].intervals = {inst[i].cleanupInterval.at}
           /\ inst[i].cleanupInterval.at >= now
           /\ inst[i].cleanupInterval.at <= now + inst[i].checkInterval * MsPerSecond
           /\ \A k \in DOMAIN inst[i].expiries :
                 /\ HasKey(inst[i], k)
                 /\ inst[i].cleanupInterval.at - inst[i].checkInterval * MsPerSecond
                       < inst[i].expiries[k]

C23_Step ==
    LET i == lastOp'.inst IN
    (lastOp'.op = "sweep" /\ lastOp' # lastOp)
    => /\ \A k \in DOMAIN inst[i].expiries :
             IF inst[i].expiries[k] <= now
             THEN ~HasKey(inst'[i], k) /\ ~HasExpiry(inst'[i], k)
             ELSE HasExpiry(inst'[i], k) /\ inst'[i].expiries[k] = inst[i].expiries[k]
       /\ inst'[i].store =
            SelectSeq(inst[i].store,
                      LAMBDA e : ~(HasExpiry(inst[i], e.key)
                                   /\ inst[i].expiries[e.key] <= now))

C23_SweepEvicts == []C23_Armed /\ [][C23_Step]_vars

\* C23's case: the calls were a construction, a set, a destroy and a second
\* construction, which loaded the first instance's snapshot; no get was made; the
\* sweep of the second instance ran at the entry's expiry and the entry is gone.
C23_Witness ==
    /\ lastOp.op = "sweep"
    /\ lastOp.seq = 4
    /\ Live(lastOp.inst)
    /\ inst[lastOp.inst].persistent
    /\ snap.has
    /\ snap.by # lastOp.inst
    /\ inst[snap.by].status = "destroyed"
    /\ snap.at < now
    /\ \E n \in 1..Len(snap.entries) :
          /\ snap.entries[n].expiryTime = now
          /\ ~HasKey(inst[lastOp.inst], snap.entries[n].key)
          /\ ~HasExpiry(inst[lastOp.inst], snap.entries[n].key)


\* C24: on a persistent instance every set, and every del of a key that is in the
\* store, leaves the save timer armed for now + saveDelay, the only timer there
\* is; a del of a key that is not in the store leaves the instance, its timer
\* included, exactly as it was.
C24_Step ==
    LET i  == lastOp'.inst
        at == now + inst[i].saveDelay * MsPerSecond
    IN  ((IsCall("set") \/ IsCall("del")) /\ inst[i].persistent)
        => IF lastOp'.op = "set" \/ HasKey(inst[i], CanonKey(lastOp'.arg.key))
           THEN /\ inst'[i].saveTimeout = Timer(at)
                /\ inst'[i].timeouts = {at}
           ELSE /\ lastOp'.result = "0"
                /\ inst'[i] = inst[i]

C24_MutationsArmTimer == [][C24_Step]_vars

\* C24's case: a del of a key that is not in the store, made a second after the
\* mutation that armed the timer, left that timer as it was.
C24_Witness ==
    /\ lastOp.op = "del"
    /\ lastOp.result = "0"
    /\ inst[lastOp.inst].persistent
    /\ inst[lastOp.inst].saveTimeout.armed
    /\ inst[lastOp.inst].timeouts = {inst[lastOp.inst].saveTimeout.at}
    /\ inst[lastOp.inst].saveTimeout.at < now + inst[lastOp.inst].saveDelay * MsPerSecond
    /\ inst[lastOp.inst].store # <<>>


\* What get(key) returns by its contract: the key's value if the key is in the
\* store and has no expiry or an expiry after t, and null otherwise.
Cached(c, k, t) ==
    IF HasKey(c, k) /\ ~(HasExpiry(c, k) /\ c.expiries[k] <= t)
    THEN (CHOOSE e \in {c.store[n] : n \in 1..Len(c.store)} : e.key = k).value
    ELSE ValNull

\* The second of two sequential wraps of one key: the wrap before it has stored
\* its result, nothing happened since, and the key has not expired.
SecondWrap ==
    /\ IsCall("wrap")
    /\ lastOp.op = "wrapDone"
    /\ lastOp.inst = lastOp'.inst
    /\ CanonKey(lastOp.arg.key) = CanonKey(lastOp'.arg.key)
    /\ ~(HasExpiry(inst[lastOp.inst], CanonKey(lastOp.arg.key))
         /\ inst[lastOp.inst].expiries[CanonKey(lastOp.arg.key)] <= now)

\* The first part of C25: wrap returns the cached value and does
\* not call fn when get(key) is not null; otherwise it calls fn once and waits,
\* having changed nothing but the lazy deletion of the key; when fn's result
\* arrives it is stored under the key with the given ttl and returned; and a
\* wrap of a key whose entry has expired calls fn.
C25_Wrap ==
    LET i == lastOp'.inst
        a == lastOp'.arg
        k == CanonKey(a.key)
        c == inst[i]
        ttl == IF a.ttl.given THEN a.ttl.v ELSE c.defaultTtl
    IN  /\ IsCall("wrap")
           => IF Cached(c, k, now) # ValNull
              THEN /\ lastOp'.result = "cached"
                   /\ lastOp'.ret = Cached(c, k, now)
                   /\ inst'[i] = c
              ELSE /\ lastOp'.result = "computing"
                   /\ inst'[i].wrapping = Append(c.wrapping, [key |-> a.key, ttl |-> a.ttl])
                   /\ ~HasExpiry(inst'[i], k) \/ inst'[i].expiries[k] > now
                   /\ SameButKey(c, inst'[i], k)
        /\ (IsCall("wrap") /\ HasExpiry(c, k) /\ c.expiries[k] <= now)
           => lastOp'.result = "computing"
        /\ (lastOp'.op = "wrapDone" /\ lastOp' # lastOp)
           => /\ Len(inst'[i].wrapping) = Len(c.wrapping) - 1
              /\ lastOp'.ret = a.value
              /\ HasEntry(inst'[i], k, a.value)
              /\ IF ttl > 0
                 THEN HasExpiry(inst'[i], k)
                      /\ inst'[i].expiries[k] = now + ttl * MsPerSecond
                 ELSE ~HasExpiry(inst'[i], k)
              /\ SameButKey(c, inst'[i], k)

\* C25: the above, and the second of two sequential wraps of an unexpired key
\* does not call fn.
C25_Step ==
    /\ C25_Wrap
    /\ SecondWrap => lastOp'.result = "cached"

C25_WrapCallsOnce == [][C25_Step]_vars


\* C26: in every state, every key of an instance's expiries is a key of its
\* store.
C26_ExpiriesInStore ==
    \A i \in InstIds : DOMAIN inst[i].expiries \subseteq StoreKeys(inst[i].store)

\* C26's case: the instance was constructed from a snapshot that lists a key
\* twice; the key is in the store once and in expiries.
C26_Witness ==
    /\ lastOp.op = "construct"
    /\ lastOp.result = "ok"
    /\ TargetFile(disk).bytes = SeedDupKeys
    /\ Len(inst[lastOp.inst].store) = 1
    /\ HasKey(inst[lastOp.inst], KeyOne)
    /\ HasExpiry(inst[lastOp.inst], KeyOne)


\* C27: an instance never has more than one pending save timer, and a pending
\* timer is the one the instance's handle holds (a timer that was cancelled is
\* not pending, so it cannot fire).
C27_OneTimer ==
    \A i \in InstIds :
        /\ Cardinality(inst[i].timeouts) <= 1
        /\ inst[i].timeouts \subseteq
               (IF inst[i].saveTimeout.armed THEN {inst[i].saveTimeout.at} ELSE {})

\* C27: a mutation that arms the timer while one is pending leaves only the new
\* timer pending; a timer that fires is the one the handle holds, it makes one
\* save, and afterwards no timer is armed.
C27_Step ==
    LET i == lastOp'.inst IN
    /\ (/\ IsCall("set") \/ (IsCall("del") /\ lastOp'.result = "1")
        /\ Live(i)
        /\ inst[i].persistent
        /\ inst[i].timeouts # {})
       => /\ inst'[i].timeouts = {inst'[i].saveTimeout.at}
          /\ inst'[i].saveTimeout.at = now + inst[i].saveDelay * MsPerSecond
          /\ \A old \in inst[i].timeouts :
                old # inst'[i].saveTimeout.at => old \notin inst'[i].timeouts
    /\ lastOp'.op = "saveTimer"
       => /\ inst[i].saveTimeout.armed
          /\ inst[i].saveTimeout.at <= now
          /\ inst[i].timeouts = {inst[i].saveTimeout.at}
          /\ lastOp'.saved
          /\ ~lastOp'.crash => /\ inst'[i].timeouts = {}
                               /\ ~inst'[i].saveTimeout.armed

C27_SingleDebounceTimer == []C27_OneTimer /\ [][C27_Step]_vars

\* C27's case: a set re-armed the timer while an earlier timer, due at another
\* time, was pending; only the new one is pending.
C27_Witness ==
    /\ lastOp.op = "set"
    /\ Live(lastOp.inst)
    /\ inst[lastOp.inst].persistent
    /\ inst[lastOp.inst].burstFirstAt < now
    /\ inst[lastOp.inst].lastMutAt = now
    /\ inst[lastOp.inst].timeouts = {now + inst[lastOp.inst].saveDelay * MsPerSecond}


\* C28: when the decoded buffer is a well-formed encoding of one entry or more
\* cut short, so that a declared field of an entry reaches past its end, the
\* decode fails and returns no entry.
C28_TruncatedFails ==
    LET full == SerializeBinary(codec.entries).bytes IN
    (/\ codec.phase = "decoded"
     /\ codec.entries # <<>>
     /\ Len(codec.bytes) < Len(full)
     /\ codec.bytes = SubSeq(full, 1, Len(codec.bytes)))
    => ~codec.outOk /\ codec.out = <<>>

\* C29: a buffer whose first three bytes are not the magic fails with the format
\* error, whatever its version byte; one with the magic and another version byte
\* fails with the version error; neither returns an entry.
C29_HeaderChecked ==
    codec.phase = "decoded"
    => /\ Slice(codec.bytes, 0, 3) # Magic
          => /\ ~codec.outOk
             /\ codec.err = "Invalid SDB file format"
             /\ codec.out = <<>>
       /\ (/\ Slice(codec.bytes, 0, 3) = Magic
           /\ Len(codec.bytes) >= 4
           /\ codec.bytes[4] # FormatVersion)
          => /\ ~codec.outOk
             /\ codec.err = "Unsupported SDB version"
             /\ codec.out = <<>>


\* C30: constructing a persistent instance fails with the conflict error while
\* a live persistent instance holds a differently spelled path that names the
\* same file.
C30_Step ==
    LET cfg  == lastOp'.cfg
        path == ConfiguredPath(cfg)
    IN  (/\ IsCall("construct")
         /\ cfg.persistent
         /\ path # NoPath
         /\ \E j \in InstIds :
               /\ Live(j)
               /\ inst[j].persistent
               /\ inst[j].persistPath # path
               /\ Resolve(inst[j].persistPath) = Resolve(path))
        => lastOp'.result = "ConflictError"

C30_CanonicalPathConflict == [][C30_Step]_vars


\* An entry that has passed its expiry and is still in the store.
ExpiredResident(c, t) ==
    \E k \in DOMAIN c.expiries : c.expiries[k] <= t /\ HasKey(c, k)

\* C31: a save made by the timer or by a process hook leaves every instance's
\* store and expiries as they were, and the save of destroy() writes the store as
\* it was before destroy() emptied it.
C31_Step ==
    LET i == lastOp'.inst IN
    /\ lastOp'.op = "saveTimer"
       => /\ inst'[i].store = inst[i].store
          /\ inst'[i].expiries = inst[i].expiries
    /\ (lastOp'.op \in HookEvents /\ lastOp'.seq = lastOp.seq + 1)
       => \A j \in InstIds : /\ inst'[j].store = inst[j].store
                             /\ inst'[j].expiries = inst[j].expiries
    /\ (IsCall("destroy") /\ lastOp'.saved /\ lastOp'.stage = "done")
       => DeserializeBinary(TargetFile(disk').bytes).entries
             = ValidEntries(StoreTriples(inst[i]), now)

C31_SaveLeavesStore == [][C31_Step]_vars

\* C31's case: the timer saved an instance that holds an expired entry; the
\* entry is still in the store and is not in the file.
C31_Witness ==
    /\ lastOp.op = "saveTimer"
    /\ lastOp.stage = "done"
    /\ Live(lastOp.inst)
    /\ ExpiredResident(inst[lastOp.inst], now)
    /\ \A k \in DOMAIN inst[lastOp.inst].expiries :
          inst[lastOp.inst].expiries[k] <= now
          => \A n \in 1..Len(snap.entries) : snap.entries[n].key # k
    /\ snap.by = lastOp.inst /\ snap.at = now


\* C32: a completed save writes, for each entry, the expiry the store holds (0
\* for none); a construction that loads a snapshot gives every loaded entry the
\* expiry the file holds for it, and none when the file holds 0.
C32_Step ==
    LET i == lastOp'.inst IN
    /\ (lastOp'.saved /\ lastOp'.stage = "done" /\ lastOp'.op \in {"saveTimer", "destroy"})
       => LET es == DeserializeBinary(TargetFile(disk').bytes).entries IN
          \A n \in 1..Len(es) :
             /\ HasKey(inst[i], es[n].key)
             /\ es[n].expiryTime = ExpiryOrZero(inst[i], es[n].key)
    /\ (/\ IsCall("construct")
        /\ lastOp'.result = "ok"
        /\ lastOp'.cfg.persistent)
       => LET es == DeserializeBinary(TargetFile(disk).bytes).entries IN
          \A m \in 1..Len(inst'[i].store) :
             \E n \in 1..Len(es) :
                /\ es[n].key = inst'[i].store[m].key
                /\ es[n].expiryTime = ExpiryOrZero(inst'[i], es[n].key)
                /\ es[n].expiryTime = 0 <=> ~HasExpiry(inst'[i], es[n].key)

C32_ExpiryKeptAcrossRestart == [][C32_Step]_vars

\* C32's case: an instance was constructed later than the snapshot was written
\* and holds an entry with the expiry the snapshot's writer had set.
C32_Witness ==
    /\ lastOp.op = "construct"
    /\ lastOp.result = "ok"
    /\ snap.has
    /\ snap.by # lastOp.inst
    /\ snap.at < now
    /\ \E n \in 1..Len(snap.entries) :
          /\ snap.entries[n].expiryTime > now
          /\ HasExpiry(inst[lastOp.inst], snap.entries[n].key)
          /\ inst[lastOp.inst].expiries[snap.entries[n].key] = snap.entries[n].expiryTime


\* C33: after destroy() has returned, the instance has no sweep interval and no
\* save timer, its store and expiries are empty, and it is in neither the
\* registry nor the set the shutdown hooks go through.
C33_Step ==
    LET i == lastOp'.inst IN
    (IsCall("destroy") /\ ~lastOp'.crash)
    => /\ ~inst'[i].cleanupInterval.armed
       /\ ~inst'[i].saveTimeout.armed
       /\ inst'[i].intervals = {}
       /\ inst'[i].timeouts = {}
       /\ inst'[i].store = <<>>
       /\ inst'[i].expiries = EmptyMap
       /\ i \notin instances'
       /\ \A p \in Paths : activeFiles'[p] # i

C33_DestroyLeavesNothing == [][C33_Step]_vars

\* C33's case: destroy() of an instance that had a pending save, entries and a
\* sweep interval configured.
C33_Witness ==
    /\ lastOp.op = "destroy"
    /\ lastOp.saved
    /\ lastOp.stage = "done"
    /\ snap.by = lastOp.inst
    /\ snap.at = now
    /\ snap.entries # <<>>
    /\ inst[lastOp.inst].status = "destroyed"
    /\ inst[lastOp.inst].checkInterval > 0
    /\ inst[lastOp.inst].store = <<>>


\* C34: an instance never has more than one sweep interval running, and a
\* running interval is the one its handle holds.
C34_OneInterval ==
    \A i \in InstIds :
        /\ Cardinality(inst[i].intervals) <= 1
        /\ inst[i].intervals =
               (IF inst[i].cleanupInterval.armed THEN {inst[i].cleanupInterval.at} ELSE {})

\* C34: a set leaves a running interval as it is; flush() and destroy() leave
\* none; a set that gives the entry an expiry when none is running starts one,
\* due a check interval later.
C34_Step ==
    LET i == lastOp'.inst IN
    /\ (IsCall("set") /\ inst[i].intervals # {})
       => /\ inst'[i].intervals = inst[i].intervals
          /\ inst'[i].cleanupInterval = inst[i].cleanupInterval
    /\ ((IsCall("flush") \/ IsCall("destroy")) /\ ~lastOp'.crash)
       => inst'[i].intervals = {}
    /\ (IsCall("set") /\ inst[i].intervals = {})
       => inst'[i].intervals =
             (IF HasExpiry(inst'[i], StringKey(lastOp'.arg.key))
              THEN {now + inst[i].checkInterval * MsPerSecond} ELSE {})

C34_SingleSweepInterval == []C34_OneInterval /\ [][C34_Step]_vars

\* C34's case: the instance constructed at time 0 with a check interval of 2 s
\* was flushed, and a set with a TTL at 1 s started the interval again.
C34_Witness ==
    /\ lastOp.op = "set"
    /\ lastOp.inst = 1
    /\ Live(1)
    /\ now = MsPerSecond
    /\ HasExpiry(inst[1], StringKey(lastOp.arg.key))
    /\ inst[1].intervals = {now + inst[1].checkInterval * MsPerSecond}


\* C35: an instance that completes a write of its snapshot is, when it writes,
\* the instance the registry holds for its path.
C35_Step ==
    \A i \in lastOp'.wrote : activeFiles[inst[i].persistPath] = i

C35_OnlyOwnerWrites == [][C35_Step]_vars


\* The entries a load at time t would take from the snapshot file: none when
\* there is no file.
FileValid(d, t) ==
    IF TargetFile(d).exists
    THEN ValidEntries(DeserializeBinary(TargetFile(d).bytes).entries, t)
    ELSE <<>>

\* The only instance the process has had, live and persistent, with no save
\* timer armed, and no write of the process has failed.
SoleIdle(i) ==
    /\ proc = "running"
    /\ Live(i)
    /\ inst[i].persistent
    /\ \A k \in InstIds : k # i => inst[k].status \in {"unborn", "failed"}
    /\ disk.faults = 0
    /\ inst[i].timeouts = {}

\* C36: when the writer of a live persistent instance is idle, the snapshot file
\* holds the non-expired entries of the store, those left by every set, del and
\* flush() so far.
C36_IdleFileCurrent ==
    \A i \in InstIds :
        SoleIdle(i) => FileValid(disk, now) = ValidEntries(StoreTriples(inst[i]), now)

\* C36, amended: when the writer is idle and the store is not empty, the file
\* holds the non-expired entries of the store; flush() writes nothing, so with an
\* empty store the file may still hold the snapshot from before the flush().
C36_IdleFileCurrentUnlessFlushed ==
    \A i \in InstIds :
        (SoleIdle(i) /\ inst[i].store # <<>>)
        => FileValid(disk, now) = ValidEntries(StoreTriples(inst[i]), now)

\* C36's case: the writer is idle after the timer wrote at the end of a burst of
\* mutations made at different times; the file holds the store's one entry.
C36_Witness ==
    /\ lastOp.op = "saveTimer"
    /\ lastOp.stage = "done"
    /\ SoleIdle(lastOp.inst)
    /\ lastOp.burstFirst < lastOp.burstLast
    /\ Len(inst[lastOp.inst].store) = 1
    /\ FileValid(disk, now) = StoreTriples(inst[lastOp.inst])


\* The claimed predicate: an entry with expiry e (0 for none) has expired at t.
Gone(e, t) == e > 0 /\ t >= e

\* C37: get, the sweep, the save and the load decide by the same predicate: an
\* entry in the store is returned by get, kept by the sweep and written by a
\* save exactly when its expiry is 0 or after now, and an entry of the file is
\* loaded exactly when its expiry is 0 or after now.
C37_Step ==
    LET i == lastOp'.inst
        c == inst[i]
    IN
    /\ (IsCall("get") /\ HasKey(c, CanonKey(lastOp'.arg.key)))
       => (lastOp'.ret # [t |-> "null"]
             <=> ~Gone(ExpiryOrZero(c, CanonKey(lastOp'.arg.key)), now))
    /\ (lastOp'.op = "sweep" /\ lastOp' # lastOp)
       => \A n \in 1..Len(c.store) :
             HasKey(inst'[i], c.store[n].key)
                <=> ~Gone(ExpiryOrZero(c, c.store[n].key), now)
    /\ (lastOp'.saved /\ lastOp'.stage = "done" /\ lastOp'.op \in {"saveTimer", "destroy"})
       => LET es == DeserializeBinary(TargetFile(disk').bytes).entries IN
          \A n \in 1..Len(c.store) :
             (\E m \in 1..Len(es) : es[m].key = c.store[n].key)
                <=> ~Gone(ExpiryOrZero(c, c.store[n].key), now)
    /\ (IsCall("construct") /\ lastOp'.result = "ok" /\ lastOp'.cfg.persistent)
       => LET es == DeserializeBinary(TargetFile(disk).bytes).entries IN
          \A m \in 1..Len(es) :
             HasKey(inst'[i], es[m].key) <=> ~Gone(es[m].expiryTime, now)

C37_OneExpiryPredicate == [][C37_Step]_vars

\* C37's case: a save ran at the very instant an entry expires; the entry is in
\* the store and not in the file.
C37_Witness ==
    /\ lastOp.op = "saveTimer"
    /\ lastOp.stage = "done"
    /\ snap.by = lastOp.inst
    /\ snap.at = now
    /\ \E k \in DOMAIN inst[lastOp.inst].expiries :
          /\ inst[lastOp.inst].expiries[k] = now
          /\ HasKey(inst[lastOp.inst], k)
          /\ \A n \in 1..Len(snap.entries) : snap.entries[n].key # k


\* C38: a construction that throws the conflict error changes neither the
\* registry, the set of the shutdown hooks, the hooks and their flag, the disk nor
\* any other instance, and the object it leaves has no interval and no timer.
C38_Step ==
    LET i == lastOp'.inst IN
    (IsCall("construct") /\ lastOp'.result = "ConflictError")
    => /\ activeFiles' = activeFiles
       /\ instances' = instances
       /\ handlersSetup' = handlersSetup
       /\ hooks' = hooks
       /\ disk' = disk
       /\ \A j \in InstIds \ {i} : inst'[j] = inst[j]
       /\ inst'[i].status = "failed"
       /\ inst'[i].intervals = {}
       /\ inst'[i].timeouts = {}
       /\ ~inst'[i].cleanupInterval.armed
       /\ ~inst'[i].saveTimeout.armed
       /\ inst'[i].store = <<>>

C38_ConflictHasNoEffect == [][C38_Step]_vars

\* C38's case: a construction was refused while the owner of the path is live
\* and its snapshot is on disk.
C38_Witness ==
    /\ lastOp.op = "construct"
    /\ lastOp.result = "ConflictError"
    /\ inst[lastOp.inst].status = "failed"
    /\ handlersSetup
    /\ TargetFile(disk).exists
    /\ snap.has
    /\ Live(snap.by)
    /\ activeFiles[ConfiguredPath(lastOp.cfg)] = snap.by


\* C39: del(key) returns 1 only for a key that get(key) would have returned a
\* value for; for a key that has passed its expiry and is still in the store it
\* returns 0 and leaves the save timer as it was.
C39_Step ==
    LET i == lastOp'.inst
        k == CanonKey(lastOp'.arg.key)
        c == inst[i]
    IN  IsCall("del")
        => /\ lastOp'.result = "1"
              => HasKey(c, k) /\ ~Gone(ExpiryOrZero(c, k), now)
           /\ (HasKey(c, k) /\ Gone(ExpiryOrZero(c, k), now))
              => /\ lastOp'.result = "0"
                 /\ inst'[i].timeouts = c.timeouts
                 /\ inst'[i].saveTimeout = c.saveTimeout

C39_DelAgreesWithGet == [][C39_Step]_vars


\* C39, amended: del(key) returns 1 exactly when the key is in the store, expired
\* or not; the del of a key that has passed its expiry and is still in the store
\* returns 1, removes it, and on a persistent instance arms the save timer.
C39_StepResident ==
    LET i == lastOp'.inst
        k == CanonKey(lastOp'.arg.key)
        c == inst[i]
    IN  IsCall("del")
        => /\ lastOp'.result = "1" <=> HasKey(c, k)
           /\ lastOp'.result = "0" <=> ~HasKey(c, k)
           /\ (HasKey(c, k) /\ Gone(ExpiryOrZero(c, k), now))
              => /\ ~HasKey(inst'[i], k)
                 /\ ~HasExpiry(inst'[i], k)
                 /\ c.persistent
                    => inst'[i].timeouts = {now + c.saveDelay * MsPerSecond}

C39_DelReportsResident == [][C39_StepResident]_vars

\* C39's case: a del returned 1 for a key whose expiry had passed.
C39_Witness ==
    /\ lastOp.op = "del"
    /\ lastOp.result = "1"
    /\ Gone(lastOp.expiry, now)
    /\ inst[lastOp.inst].persistent
    /\ inst[lastOp.inst].timeouts = {now + inst[lastOp.inst].saveDelay * MsPerSecond}


\* A non-expired entry of the store that has no encoding.
HoldsUnencodable(c, t) ==
    \E n \in 1..Len(ValidEntries(StoreTriples(c), t)) :
        ~EntryEncodable(ValidEntries(StoreTriples(c), t)[n])

\* C40: a save by the timer or by destroy() leaves a snapshot that holds every
\* non-expired entry of the store that can be encoded, whether or not the store
\* holds one that cannot.
C40_Step ==
    LET i == lastOp'.inst IN
    (lastOp'.saved /\ lastOp'.op \in {"saveTimer", "destroy"})
    => /\ TargetFile(disk').exists
       /\ DeserializeBinary(TargetFile(disk').bytes).entries
             = SelectSeq(ValidEntries(StoreTriples(inst[i]), now), EntryEncodable)

C40_BadEntrySkipped == [][C40_Step]_vars

\* C40, amended: a save of a store that holds a non-expired entry without an
\* encoding writes nothing, the disk and the store are as they were; a save of a
\* store without one leaves a snapshot of all its non-expired entries.
C40_StepAllOrNothing ==
    LET i == lastOp'.inst IN
    /\ (lastOp'.saved /\ lastOp'.op = "saveTimer")
       => IF HoldsUnencodable(inst[i], now)
          THEN /\ disk' = disk
               /\ inst'[i].store = inst[i].store
               /\ inst'[i].expiries = inst[i].expiries
          ELSE /\ TargetFile(disk').exists
               /\ DeserializeBinary(TargetFile(disk').bytes).entries
                     = ValidEntries(StoreTriples(inst[i]), now)
    /\ (lastOp'.saved /\ lastOp'.op = "destroy")
       => IF HoldsUnencodable(inst[i], now)
          THEN disk' = disk
          ELSE /\ TargetFile(disk').exists
               /\ DeserializeBinary(TargetFile(disk').bytes).entries
                     = ValidEntries(StoreTriples(inst[i]), now)

C40_BadEntryBlocksSnapshot == [][C40_StepAllOrNothing]_vars

\* C40's case: the timer's save ran on a store that holds an entry with a value
\* and an entry without an encoding, and there is no snapshot file.
C40_Witness ==
    /\ lastOp.op = "saveTimer"
    /\ Live(lastOp.inst)
    /\ HoldsUnencodable(inst[lastOp.inst], now)
    /\ \E n \in 1..Len(inst[lastOp.inst].store) :
          inst[lastOp.inst].store[n].value = ValStr
    /\ inst[lastOp.inst].timeouts = {}
    /\ ~TargetFile(disk).exists

=============================================================================
